---- MODULE Spec2Model ----
(***************************************************************************)
(* Model of the Seguros Bolivar read-only claim-status scraper:            *)
(*   applications/scrapers/views.py          (the batch endpoint)          *)
(*   applications/scrapers/services/seguros_bolivar_session.py (Session)   *)
(*                                                                         *)
(* Text is modelled character by character: a Python str is a sequence of  *)
(* one-character strings, and Python's None is the tuple None below, which *)
(* no str equals.  A document (an HTTP response body) is modelled by what  *)
(* the two parsers used by the code see in it: the envelope marker, the    *)
(* <update> elements ElementTree yields, and the forms, tables and labels  *)
(* BeautifulSoup yields.                                                   *)
(***************************************************************************)
EXTENDS Integers, Sequences, FiniteSets, TLC

\* ------------------------------------------------------------------ text

None == <<"None">>

Truthy(x) == x # None /\ x # <<>>

\* `x or ""`
OrEmpty(x) == IF Truthy(x) THEN x ELSE <<>>

IsSpace(c) == c \in {" ", "\t", "\n", "\r"}

UpperChars == <<"A","B","C","D","E","F","G","H","I","J","K","L","M","N","O","P","Q","R","S","T","U","V","W","X","Y","Z">>

LowerChars == <<"a","b","c","d","e","f","g","h","i","j","k","l","m","n","o","p","q","r","s","t","u","v","w","x","y","z">>

UpperSet == {UpperChars[i] : i \in 1..Len(UpperChars)}

LowerSet == {LowerChars[i] : i \in 1..Len(LowerChars)}

LowerOf == [c \in UpperSet |-> LowerChars[CHOOSE i \in 1..Len(UpperChars) : UpperChars[i] = c]]

UpperOf == [c \in LowerSet |-> UpperChars[CHOOSE i \in 1..Len(LowerChars) : LowerChars[i] = c]]

LowerChar(c) == IF c \in UpperSet THEN LowerOf[c] ELSE c

UpperChar(c) == IF c \in LowerSet THEN UpperOf[c] ELSE c

Lower(s) == [i \in 1..Len(s) |-> LowerChar(s[i])]

Upper(s) == [i \in 1..Len(s) |-> UpperChar(s[i])]

RECURSIVE LStrip(_)
LStrip(s) == IF s # <<>> /\ IsSpace(Head(s)) THEN LStrip(Tail(s)) ELSE s

RECURSIVE RStrip(_)
RStrip(s) ==
  IF s # <<>> /\ IsSpace(s[Len(s)]) THEN RStrip(SubSeq(s, 1, Len(s) - 1)) ELSE s

\* str.strip()
Strip(s) == RStrip(LStrip(s))

StartsWith(s, p) == Len(p) <= Len(s) /\ SubSeq(s, 1, Len(p)) = p

EndsWith(s, p) == Len(p) <= Len(s) /\ SubSeq(s, Len(s) - Len(p) + 1, Len(s)) = p

\* `sub in s`
Contains(s, sub) ==
  \E i \in 1..(Len(s) - Len(sub) + 1) : SubSeq(s, i, i + Len(sub) - 1) = sub

\* s.replace(a, b) for one-character a
ReplaceChar(s, a, b) == [i \in 1..Len(s) |-> IF s[i] = a THEN b ELSE s[i]]

\* s.replace(a, "")
RECURSIVE RemoveChar(_, _)
RemoveChar(s, a) ==
  IF s = <<>> THEN <<>>
  ELSE IF Head(s) = a THEN RemoveChar(Tail(s), a)
       ELSE <<Head(s)>> \o RemoveChar(Tail(s), a)

\* s.split(sep) for a one-character sep: the pieces, empty ones included
RECURSIVE SplitAcc(_, _, _)
SplitAcc(s, sep, cur) ==
  IF s = <<>> THEN <<cur>>
  ELSE IF Head(s) = sep THEN <<cur>> \o SplitAcc(Tail(s), sep, <<>>)
       ELSE SplitAcc(Tail(s), sep, Append(cur, Head(s)))

Split(s, sep) == SplitAcc(s, sep, <<>>)

\* sep.join(parts)
RECURSIVE Join(_, _)
Join(parts, sep) ==
  IF parts = <<>> THEN <<>>
  ELSE IF Len(parts) = 1 THEN parts[1]
       ELSE parts[1] \o sep \o Join(Tail(parts), sep)

\* a variant that keeps the blank parts
StripKeepsBlank(parts) == [i \in 1..Len(parts) |-> Strip(parts[i])]

\* [p.strip() for p in parts if p.strip()]
RECURSIVE StripNonEmpty(_)
StripNonEmpty(parts) ==
  IF parts = <<>> THEN <<>>
  ELSE IF Strip(Head(parts)) # <<>>
       THEN <<Strip(Head(parts))>> \o StripNonEmpty(Tail(parts))
       ELSE StripNonEmpty(Tail(parts))

\* re.sub(r"\s+", " ", s)
RECURSIVE CollapseWs(_)
CollapseWs(s) ==
  IF s = <<>> THEN <<>>
  ELSE IF IsSpace(Head(s))
       THEN <<" ">> \o CollapseWs(LStrip(s))
       ELSE <<Head(s)>> \o CollapseWs(Tail(s))

\* value.split(":", 1)[1] when ":" occurs in value
RECURSIVE AfterFirstColon(_)
AfterFirstColon(s) ==
  IF s = <<>> THEN <<>>
  ELSE IF Head(s) = ":" THEN Tail(s) ELSE AfterFirstColon(Tail(s))

CookiePrefix == <<"c","o","o","k","i","e",":">>

\* -------------------------------------------------- views.py: normalizers

\* views.py _normalize_cookie_header
normalize_cookie_header(raw) ==
  LET value == Strip(OrEmpty(raw)) IN
  IF value = <<>> THEN <<>>
  ELSE LET v1 == IF StartsWith(Lower(value), CookiePrefix)
                 THEN Strip(AfterFirstColon(value)) ELSE value
           v2 == RemoveChar(v1, "\r")
       IN Join(StripNonEmpty(Split(ReplaceChar(v2, "\n", ";"), ";")), <<";", " ">>)

\* a variant that keeps repeated identifiers
DedupeKeepsAll(rs, unique) == unique \o rs

\* the de-duplication loop of _normalize_radicados (seen / unique)
RECURSIVE Dedupe(_, _)
Dedupe(rs, unique) ==
  IF rs = <<>> THEN unique
  ELSE IF \E i \in 1..Len(unique) : unique[i] = Head(rs)
       THEN Dedupe(Tail(rs), unique)
       ELSE Dedupe(Tail(rs), Append(unique, Head(rs)))

\* views.py _normalize_radicados.  A request value is a record: kind "null",
\* kind "str" (text), kind "list" (items, each already its str()), or kind
\* "other" (text: its str()).
normalize_radicados(value) ==
  IF value.kind = "null" THEN <<>>
  ELSE LET radicados ==
             IF value.kind = "str"
             THEN StripNonEmpty(Split(ReplaceChar(ReplaceChar(ReplaceChar(
                      value.text, "\r", "\n"), ",", "\n"), ";", "\n"), "\n"))
             ELSE IF value.kind = "list" THEN StripNonEmpty(value.items)
             ELSE StripNonEmpty(<<value.text>>)
       IN Dedupe(radicados, <<>>)

\* --------------------------------------- http.cookies.SimpleCookie.load

Digits == {"0","1","2","3","4","5","6","7","8","9"}

IsLetter(c) == c \in UpperSet \/ c \in LowerSet

\* http.cookies _LegalChars (the backquote, which no modelled text holds, left out)
IsLegalChar(c) ==
  IsLetter(c) \/ c \in Digits
  \/ c \in {"!","#","$","%","&","'","*","+","-",".","^","_","|","~",":"}

\* http.cookies _LegalKeyChars (the backquote left out)
IsLegalKeyChar(c) ==
  IsLetter(c) \/ c \in Digits
  \/ c \in {"!","#","%","&","'","~","_",">","<","@",",",":","/","$","*","+","-",".","^","|",")","(","?","}","{","="}

\* http.cookies _LegalValueChars
IsLegalValueChar(c) == IsLegalKeyChar(c) \/ c \in {"[", "]"}

\* Morsel._reserved
ReservedKeys == {
  <<"e","x","p","i","r","e","s">>,
  <<"p","a","t","h">>,
  <<"c","o","m","m","e","n","t">>,
  <<"d","o","m","a","i","n">>,
  <<"m","a","x","-","a","g","e">>,
  <<"s","e","c","u","r","e">>,
  <<"h","t","t","p","o","n","l","y">>,
  <<"v","e","r","s","i","o","n">>,
  <<"s","a","m","e","s","i","t","e">>
}

\* Morsel._flags
FlagKeys == {<<"s","e","c","u","r","e">>, <<"h","t","t","p","o","n","l","y">>}

RECURSIVE SkipWs(_, _)
SkipWs(s, i) == IF i <= Len(s) /\ IsSpace(s[i]) THEN SkipWs(s, i + 1) ELSE i

RECURSIVE RunEnd(_, _, _)
\* the position after the longest run, from i, of key (kind 1) or value
\* (kind 2) characters
RunEnd(s, i, kind) ==
  IF i <= Len(s) /\ (IF kind = 1 THEN IsLegalKeyChar(s[i]) ELSE IsLegalValueChar(s[i]))
  THEN RunEnd(s, i + 1, kind) ELSE i

\* \s*(\s+|;|$) matches at q
TermOk(s, q) ==
  LET q2 == SkipWs(s, q) IN q2 > Len(s) \/ s[q2] = ";" \/ q2 > q

TermEnd(s, q) ==
  LET q2 == SkipWs(s, q) IN IF q2 <= Len(s) /\ s[q2] = ";" THEN q2 + 1 ELSE q2

\* _CookiePattern with the key ending at q (exclusive), the key starting at p:
\* the optional "= value" group first, then the match without it.  Texts hold
\* no double quote, so the value is a run of legal value characters.
KeyEndMatch(s, p, q) ==
  LET q1 == SkipWs(s, q)
      hasEq == q1 <= Len(s) /\ s[q1] = "="
      v == SkipWs(s, q1 + 1)
      ve == RunEnd(s, v, 2)
  IN IF hasEq /\ TermOk(s, ve)
     THEN [ok |-> TRUE, key |-> SubSeq(s, p, q - 1), val |-> SubSeq(s, v, ve - 1),
           end |-> TermEnd(s, ve)]
     ELSE IF TermOk(s, q)
          THEN [ok |-> TRUE, key |-> SubSeq(s, p, q - 1), val |-> None,
                end |-> TermEnd(s, q)]
          ELSE [ok |-> FALSE, key |-> <<>>, val |-> None, end |-> q]

\* patt.match(str, i): the key is the shortest run that lets the rest match
CookieMatch(s, i) ==
  LET p == SkipWs(s, i)
      r == RunEnd(s, p, 1)
      ends == {q \in (p + 1)..r : KeyEndMatch(s, p, q).ok}
  IN IF ends = {} THEN [ok |-> FALSE, key |-> <<>>, val |-> None, end |-> i]
     ELSE KeyEndMatch(s, p, CHOOSE q \in ends : \A q2 \in ends : q <= q2)

\* BaseCookie.__parse_string, first loop: the parsed items, or "invalid" when
\* the string is rejected as a whole.  An item is <<type, key, value>>.
RECURSIVE ParseItems(_, _, _, _)
ParseItems(s, i, items, morsel_seen) ==
  IF ~(i <= Len(s)) THEN [valid |-> TRUE, items |-> items]
  ELSE LET m == CookieMatch(s, i) IN
    IF ~m.ok THEN [valid |-> TRUE, items |-> items]
    ELSE IF Head(m.key) = "$"
      THEN IF ~morsel_seen THEN ParseItems(s, m.end, items, morsel_seen)
           ELSE ParseItems(s, m.end, Append(items, <<"attr", Tail(m.key), m.val>>), morsel_seen)
    ELSE IF Lower(m.key) \in ReservedKeys
      THEN IF ~morsel_seen THEN [valid |-> FALSE, items |-> <<>>]
           ELSE IF m.val = None
                THEN IF Lower(m.key) \in FlagKeys
                     THEN ParseItems(s, m.end, Append(items, <<"attr", m.key, None>>), morsel_seen)
                     ELSE [valid |-> FALSE, items |-> <<>>]
                ELSE ParseItems(s, m.end, Append(items, <<"attr", m.key, m.val>>), morsel_seen)
    ELSE IF m.val # None
      THEN ParseItems(s, m.end, Append(items, <<"kv", m.key, m.val>>), TRUE)
    ELSE [valid |-> FALSE, items |-> <<>>]

\* Morsel.set's _is_legal_key
IsLegalKey(key) == key # <<>> /\ \A i \in 1..Len(key) : IsLegalChar(key[i])

\* cookie store update: name -> value, a later value replaces an earlier one
SetCookie(jar, key, val) ==
  IF \E i \in 1..Len(jar) : jar[i][1] = key
  THEN [i \in 1..Len(jar) |-> IF jar[i][1] = key THEN <<key, val>> ELSE jar[i]]
  ELSE Append(jar, <<key, val>>)

\* BaseCookie.__parse_string, second loop: apply the items.  raised = a
\* CookieError (illegal key, or an attribute that is not reserved).
RECURSIVE ApplyItems(_, _)
ApplyItems(items, jar) ==
  IF items = <<>> THEN [raised |-> FALSE, jar |-> jar]
  ELSE LET it == Head(items) IN
    IF it[1] = "attr"
    THEN IF Lower(it[2]) \in ReservedKeys THEN ApplyItems(Tail(items), jar)
         ELSE [raised |-> TRUE, jar |-> <<>>]
    ELSE IF IsLegalKey(it[2]) THEN ApplyItems(Tail(items), SetCookie(jar, it[2], it[3]))
         ELSE [raised |-> TRUE, jar |-> <<>>]

\* SimpleCookie().load(value): the parsed cookies, or raised
SimpleCookieLoad(value) ==
  LET parsed == ParseItems(value, 1, <<>>, FALSE) IN
  IF ~parsed.valid THEN [raised |-> FALSE, jar |-> <<>>]
  ELSE ApplyItems(parsed.items, <<>>)

\* seguros_bolivar_session.py _apply_cookie_header: the cookies it sets in
\* the HTTP client's store, or raised (SimpleCookie's CookieError)
apply_cookie_header(cookie_header) ==
  LET value == Strip(OrEmpty(cookie_header)) IN
  IF value = <<>> THEN [raised |-> FALSE, jar |-> <<>>]
  ELSE LET v1 == IF StartsWith(Lower(value), CookiePrefix)
                 THEN Strip(AfterFirstColon(value)) ELSE value
           v2 == RemoveChar(v1, "\r")
           v3 == Join(StripNonEmpty(Split(ReplaceChar(v2, "\n", ";"), ";")), <<";", " ">>)
       IN SimpleCookieLoad(v3)

\* ------------------------------------------------------------ documents
(***************************************************************************)
(* An HTTP response body, as the code's parsers see it:                    *)
(*   marker  : "<partial-response" occurs in the lower-cased text          *)
(*   xml_ok  : ET.fromstring(text) succeeds                                *)
(*   updates : the elements root.iter() yields whose tag ends with         *)
(*             "update": id attribute, text ("".join(itertext())) and the  *)
(*             tree BeautifulSoup builds from the unescaped text           *)
(*   html    : the tree BeautifulSoup(text, "html.parser") builds          *)
(* An html tree holds its forms (each with its input, textarea and button  *)
(* elements in document order), its tables and its labels in document      *)
(* order (table: the index of the enclosing table, 0 when outside).        *)
(* An attribute the element lacks is None.                                 *)
(***************************************************************************)

VIEWSTATE == <<"j","a","v","a","x",".","f","a","c","e","s",".","V","i","e","w","S","t","a","t","e">>

viewstate_lower == <<"j","a","v","a","x",".","f","a","c","e","s",".","v","i","e","w","s","t","a","t","e">>

S_busqueda == <<"b","u","s","q","u","e","d","a">>

S_FormIndex == <<"F","o","r","m","I","n","d","e","x">>

S_index_xhtml == <<"i","n","d","e","x",".","x","h","t","m","l">>

S_pages_index_xhtml == <<"/","p","a","g","e","s","/","i","n","d","e","x",".","x","h","t","m","l">>

S_datossolicitud == <<"d","a","t","o","s","s","o","l","i","c","i","t","u","d">>

S_hidden == <<"h","i","d","d","e","n">>

S_update == <<"u","p","d","a","t","e">>

EmptyHtml == [forms |-> <<>>, tables |-> <<>>, labels |-> <<>>]

\* soup.find_all("input") over the whole tree, in document order
RECURSIVE AllControls(_)
AllControls(forms) ==
  IF forms = <<>> THEN <<>> ELSE Head(forms).controls \o AllControls(Tail(forms))

IsViewStateInput(c) == c.tag = "input" /\ c.name = VIEWSTATE

\* the first of the positions found (find, or the first pass of a for loop
\* that returns or breaks), or 0
First(hits) == IF hits = {} THEN 0 ELSE CHOOSE i \in hits : \A j \in hits : i <= j

\* the positions of the token field among the page's controls
ViewStateInputs(html) ==
  {i \in 1..Len(AllControls(html.forms)) : IsViewStateInput(AllControls(html.forms)[i])}

\* soup.find("input", {"name": "javax.faces.ViewState"}) finds an element
HasViewStateElement(html) == First(ViewStateInputs(html)) # 0

\* view_state_input.get("value") of the element found
ViewStateElementValue(html) ==
  AllControls(html.forms)[First(ViewStateInputs(html))].value

\* the value _refresh_view_state_from_html finds in an envelope, or None:
\* the first update whose id holds the token field name and whose text is
\* not blank
EnvelopeViewState(doc) ==
  LET hit(u) == Contains(Lower(OrEmpty(u.id)), viewstate_lower) /\ Strip(u.text) # <<>>
      u == First({i \in 1..Len(doc.updates) : hit(doc.updates[i])})
  IN IF doc.marker /\ doc.xml_ok /\ u # 0 THEN Strip(doc.updates[u].text) ELSE None

\* a variant that takes whatever the page's token field holds
refresh_view_state_overwrites(doc, view_state_value) ==
  IF EnvelopeViewState(doc) # None THEN EnvelopeViewState(doc)
  ELSE IF HasViewStateElement(doc.html) THEN ViewStateElementValue(doc.html)
       ELSE None

\* _refresh_view_state_from_html: the tracked value after the refresh
refresh_view_state_from_html(doc, view_state_value) ==
  IF EnvelopeViewState(doc) # None THEN EnvelopeViewState(doc)
  ELSE IF HasViewStateElement(doc.html) /\ Truthy(ViewStateElementValue(doc.html))
       THEN ViewStateElementValue(doc.html)
       ELSE view_state_value

\* the tree built from several fragments joined with newlines
RECURSIVE ConcatHtml(_)
ConcatHtml(hs) ==
  IF hs = <<>> THEN EmptyHtml
  ELSE LET h == Head(hs)
           r == ConcatHtml(Tail(hs))
       IN [forms |-> h.forms \o r.forms,
           tables |-> h.tables \o r.tables,
           labels |-> h.labels \o [i \in 1..Len(r.labels) |->
                        [r.labels[i] EXCEPT !.table =
                           IF @ = 0 THEN 0 ELSE @ + Len(h.tables)]]]

RECURSIVE Chunks(_)
\* the chunks list of _unwrap_jsf_partial_response: updates with blank text
\* are skipped
Chunks(updates) ==
  IF updates = <<>> THEN <<>>
  ELSE IF Strip(Head(updates).text) = <<>> THEN Chunks(Tail(updates))
       ELSE <<Head(updates).html>> \o Chunks(Tail(updates))

\* a variant that takes the update chunks of an envelope without parsing it
UnwrappedHtmlUnparsed(doc) ==
  IF ~doc.marker THEN doc.html
  ELSE IF Chunks(doc.updates) # <<>> THEN ConcatHtml(Chunks(doc.updates))
  ELSE doc.html

\* BeautifulSoup(_unwrap_jsf_partial_response(text), "html.parser")
UnwrappedHtml(doc) ==
  IF ~doc.marker THEN doc.html
  ELSE IF ~doc.xml_ok THEN doc.html
  ELSE IF Chunks(doc.updates) # <<>> THEN ConcatHtml(Chunks(doc.updates))
  ELSE doc.html

\* ---------------------------------------------------------------- forms

HasBusquedaField(form) ==
  \E i \in 1..Len(form.controls) :
    LET c == form.controls[i] IN
      /\ c.tag \in {"input", "textarea"}
      /\ \/ EndsWith(Lower(OrEmpty(c.name)), S_busqueda)
         \/ EndsWith(Lower(OrEmpty(c.id)), S_busqueda)

IsFormIndex(form) ==
  Strip(OrEmpty(form.id)) = S_FormIndex \/ Strip(OrEmpty(form.name)) = S_FormIndex

PostsToIndex(form) ==
  LET action == Lower(OrEmpty(form.action)) IN
    EndsWith(action, S_pages_index_xhtml) \/ EndsWith(action, S_index_xhtml)

HasViewStateInput(form) == \E i \in 1..Len(form.controls) : IsViewStateInput(form.controls[i])

\* _find_search_form returns None: the page has no form
NoFormFound(html) == html.forms = <<>>

\* a variant without the preference for the canonical form
find_search_form_unranked(html) ==
  LET forms == html.forms
      busqueda_forms == SelectSeq(forms, HasBusquedaField)
      posts_to_index == First({i \in 1..Len(busqueda_forms) : PostsToIndex(busqueda_forms[i])})
      with_view_state == First({i \in 1..Len(forms) : HasViewStateInput(forms[i])})
  IN IF busqueda_forms # <<>>
     THEN IF posts_to_index # 0 THEN busqueda_forms[posts_to_index]
          ELSE busqueda_forms[1]
     ELSE IF with_view_state # 0 THEN forms[with_view_state]
          ELSE forms[1]

\* _find_search_form: the chosen form, when the page has one
find_search_form(html) ==
  LET forms == html.forms
      busqueda_forms == SelectSeq(forms, HasBusquedaField)
      form_index == First({i \in 1..Len(busqueda_forms) : IsFormIndex(busqueda_forms[i])})
      posts_to_index == First({i \in 1..Len(busqueda_forms) : PostsToIndex(busqueda_forms[i])})
      with_view_state == First({i \in 1..Len(forms) : HasViewStateInput(forms[i])})
  IN IF busqueda_forms # <<>>
     THEN IF form_index # 0 THEN busqueda_forms[form_index]
          ELSE IF posts_to_index # 0 THEN busqueda_forms[posts_to_index]
               ELSE busqueda_forms[1]
     ELSE IF with_view_state # 0 THEN forms[with_view_state]
          ELSE forms[1]

\* dict item assignment: payload[key] = val
DictSet(d, key, val) ==
  IF \E i \in 1..Len(d) : d[i][1] = key
  THEN [i \in 1..Len(d) |-> IF d[i][1] = key THEN <<key, val>> ELSE d[i]]
  ELSE Append(d, <<key, val>>)

DictHas(d, key) == \E i \in 1..Len(d) : d[i][1] = key

DictGet(d, key) == d[CHOOSE i \in 1..Len(d) : d[i][1] = key][2]

\* get_info_for_radicado, lines 430-443: the hidden inputs replayed
RECURSIVE HiddenFields(_, _)
HiddenFields(controls, payload) ==
  IF controls = <<>> THEN payload
  ELSE LET inp == Head(controls) IN
    IF inp.tag = "input" /\ Truthy(inp.name) /\ inp.name # VIEWSTATE
       /\ Lower(OrEmpty(inp.type)) = S_hidden
    THEN HiddenFields(Tail(controls), DictSet(payload, inp.name, OrEmpty(inp.value)))
    ELSE HiddenFields(Tail(controls), payload)

\* get_info_for_radicado, lines 446-456: the name of the search-text field
BusquedaName(form) ==
  LET hit(c) == c.tag \in {"input", "textarea"}
                /\ Contains(Lower(OrEmpty(c.name) \o <<" ">> \o OrEmpty(c.id)), S_busqueda)
      i == First({k \in 1..Len(form.controls) : hit(form.controls[k])})
      named == IF i = 0 THEN None
               ELSE IF Truthy(form.controls[i].name) THEN form.controls[i].name
               ELSE form.controls[i].id
  IN IF Truthy(named) THEN named ELSE S_busqueda

\* get_info_for_radicado, lines 463-474: the (name, text_value) candidates
RECURSIVE SubmitCandidates(_)
SubmitCandidates(controls) ==
  IF controls = <<>> THEN <<>>
  ELSE LET btn == Head(controls)
           btype == Lower(OrEmpty(btn.type))
           name == IF Truthy(btn.name) THEN btn.name ELSE btn.id
           text_value == IF Truthy(btn.value) THEN btn.value ELSE OrEmpty(btn.text)
       IN IF btn.tag \notin {"button", "input"} THEN SubmitCandidates(Tail(controls))
          ELSE IF btn.tag = "input" /\ btype # <<>> /\ btype \notin {<<"s","u","b","m","i","t">>, <<"i","m","a","g","e">>}
               THEN SubmitCandidates(Tail(controls))
          ELSE IF ~Truthy(name) THEN SubmitCandidates(Tail(controls))
          ELSE <<<<name, text_value>>>> \o SubmitCandidates(Tail(controls))

SubmitKeywords == {<<"b","u","s","c","a","r">>, <<"b","u","s","c","a">>, <<"c","o","n","s","u","l","t","a">>, <<"c","o","n","s","u","l","t">>, <<"s","e","a","r","c","h">>}

HasKeyword(cand) ==
  \E k \in SubmitKeywords : Contains(Lower(cand[1] \o <<" ">> \o cand[2]), k)

IsWordChar(c) == IsLetter(c) \/ c \in Digits \/ c = "_"

S_j_idt == <<"j","_","i","d","t">>

RECURSIVE DigitsEnd(_, _)
DigitsEnd(s, i) == IF i <= Len(s) /\ s[i] \in Digits THEN DigitsEnd(s, i + 1) ELSE i

\* re.fullmatch(r"j_idt\d+", name) or re.search(r"\bj_idt\d+\b", name)
IsGeneratedName(cand) ==
  LET name == cand[1] IN
  \E i \in 1..Len(name) :
    /\ i + Len(S_j_idt) - 1 <= Len(name)
    /\ SubSeq(name, i, i + Len(S_j_idt) - 1) = S_j_idt
    /\ (i = 1 \/ ~IsWordChar(name[i - 1]))
    /\ LET d == i + Len(S_j_idt)
           e == DigitsEnd(name, d)
       IN e > d /\ (e > Len(name) \/ ~IsWordChar(name[e]))

\* get_info_for_radicado, lines 476-489: the submit control's name, or None
SubmitName(form) ==
  LET candidates == SubmitCandidates(form.controls)
      keyword == First({i \in 1..Len(candidates) : HasKeyword(candidates[i])})
      generated == First({i \in 1..Len(candidates) : IsGeneratedName(candidates[i])})
  IN IF keyword # 0 THEN candidates[keyword][1]
     ELSE IF generated # 0 THEN candidates[generated][1]
          ELSE IF Len(candidates) = 1 THEN candidates[1][1] ELSE None

\* get_info_for_radicado, lines 426-499: the POST it sends for the chosen form
BuildPost(form, solicitud, view_state_value) ==
  LET p1 == HiddenFields(form.controls, <<>>)
      p2 == DictSet(p1, BusquedaName(form), solicitud)
      p3 == DictSet(p2, VIEWSTATE, view_state_value)
      submit_name == SubmitName(form)
      p4 == IF Truthy(submit_name) THEN DictSet(p3, submit_name, submit_name) ELSE p3
  IN [kind |-> "POST_FORM", action |-> form.action, form |-> form, payload |-> p4]

\* ----------------------------------------------------------- extraction

S_estado == <<"e","s","t","a","d","o">>

S_siniestro == <<"s","i","n","i","e","s","t","r","o">>

\* re.compile(r"estado\s*siniestro", flags=re.I).search(text)
MatchesEstadoSiniestro(text) ==
  LET low == Lower(text) IN
  \E i \in 1..Len(low) :
    /\ i + Len(S_estado) - 1 <= Len(low)
    /\ SubSeq(low, i, i + Len(S_estado) - 1) = S_estado
    /\ LET j == SkipWs(low, i + Len(S_estado)) IN
         /\ j + Len(S_siniestro) - 1 <= Len(low)
         /\ SubSeq(low, j, j + Len(S_siniestro) - 1) = S_siniestro

\* re.compile(r"\b(inquilino|asegurado)\b", flags=re.I).search(text)
MatchesInquilinoAsegurado(text) ==
  LET low == Lower(text) IN
  \E w \in {<<"i","n","q","u","i","l","i","n","o">>, <<"a","s","e","g","u","r","a","d","o">>} : \E i \in 1..Len(low) :
    /\ i + Len(w) - 1 <= Len(low)
    /\ SubSeq(low, i, i + Len(w) - 1) = w
    /\ (i = 1 \/ ~IsWordChar(low[i - 1]))
    /\ (i + Len(w) > Len(low) \/ ~IsWordChar(low[i + Len(w)]))

\* label_pattern.search(text) for the two patterns _extract_info_from_html uses
LabelMatches(label_pattern, text) ==
  IF label_pattern = "estado_siniestro" THEN MatchesEstadoSiniestro(text)
  ELSE MatchesInquilinoAsegurado(text)

\* _extract_label_value_from_datos_solicitud: the text of the label that
\* follows, in document order, the first label of table t matching the pattern
extract_label_value_from_datos_solicitud(html, t, label_pattern) ==
  LET hits == {i \in 1..Len(html.labels) :
                 /\ html.labels[i].table = t
                 /\ html.labels[i].text # None
                 /\ LabelMatches(label_pattern, html.labels[i].text)}
  IN IF hits = {} THEN None
     ELSE LET i == CHOOSE i \in hits : \A j \in hits : i <= j IN
          IF i + 1 > Len(html.labels) THEN None
          ELSE LET value == Strip(OrEmpty(html.labels[i + 1].text)) IN
               IF value # <<>> THEN value ELSE None

\* a variant that reads the page's first table whatever its id
extract_info_from_first_table(doc) ==
  LET html == UnwrappedHtml(doc)
  IN IF html.tables = <<>> THEN <<None, None>>
     ELSE << extract_label_value_from_datos_solicitud(html, 1, "estado_siniestro"),
             extract_label_value_from_datos_solicitud(html, 1, "inquilino_asegurado") >>

\* _extract_info_from_html: <<estado_raw, asegurado>>
extract_info_from_html(doc) ==
  LET html == UnwrappedHtml(doc)
      isDatos(t) == EndsWith(Lower(Strip(OrEmpty(html.tables[t].id))), S_datossolicitud)
      datos == {t \in 1..Len(html.tables) : isDatos(t)}
  IN IF datos = {} THEN <<None, None>>
     ELSE LET t == CHOOSE t \in datos : \A u \in datos : t <= u IN
          << extract_label_value_from_datos_solicitud(html, t, "estado_siniestro"),
             extract_label_value_from_datos_solicitud(html, t, "inquilino_asegurado") >>

NO_ENCONTRADO == <<"N","O"," ","E","N","C","O","N","T","R","A","D","O">>

SIN_DESISTIR == <<"S","I","N"," ","D","E","S","I","S","T","I","R">>

DESISTIDO == <<"D","E","S","I","S","T","I","D","O">>

REPORTADO == <<"R","E","P","O","R","T","A","D","O">>

\* a variant that compares with "nuevo" without lowering the case
normalize_estado_cased(raw) ==
  LET text == Strip(OrEmpty(raw))
      lower == Lower(text)
  IN IF text = <<>> THEN NO_ENCONTRADO
     ELSE IF text = <<"n","u","e","v","o">> THEN SIN_DESISTIR
     ELSE IF Contains(lower, <<"d","e","s","i","s","t">>) THEN DESISTIDO
     ELSE IF Contains(lower, <<"r","e","p","o","r","t">>) THEN REPORTADO
     ELSE IF Contains(lower, <<"s","i","n"," ","d","e","s","i","s","t">>) \/ Contains(lower, <<"n","o"," ","h","a"," ","p","a","g","a","d","o">>)
             \/ Contains(lower, <<"s","i","n"," ","p","a","g","a","r">>) THEN SIN_DESISTIR
     ELSE Upper(Strip(CollapseWs(text)))

\* _normalize_estado
normalize_estado(raw) ==
  LET text == Strip(OrEmpty(raw))
      lower == Lower(text)
  IN IF text = <<>> THEN NO_ENCONTRADO
     ELSE IF lower = <<"n","u","e","v","o">> THEN SIN_DESISTIR
     ELSE IF Contains(lower, <<"d","e","s","i","s","t">>) THEN DESISTIDO
     ELSE IF Contains(lower, <<"r","e","p","o","r","t">>) THEN REPORTADO
     ELSE IF Contains(lower, <<"s","i","n"," ","d","e","s","i","s","t">>) \/ Contains(lower, <<"n","o"," ","h","a"," ","p","a","g","a","d","o">>)
             \/ Contains(lower, <<"s","i","n"," ","p","a","g","a","r">>) THEN SIN_DESISTIR
     ELSE Upper(Strip(CollapseWs(text)))

\* get_info_for_radicado, lines 504-508: the tuple returned for a response
InfoResult(doc) ==
  LET info == extract_info_from_html(doc) IN
  IF ~Truthy(info[1]) THEN <<NO_ENCONTRADO, NO_ENCONTRADO, info[2]>>
  ELSE <<info[1], normalize_estado(info[1]), info[2]>>

\* ------------------------------------------- _extract_estado_from_html
\* The heuristic extractor.  A page's text is what its elements hold: the
\* visible text of the forms' controls, then the labels.

RECURSIVE TextsOf(_)
\* the text attribute of each element of a sequence, absent ones skipped
TextsOf(elems) ==
  IF elems = <<>> THEN <<>>
  ELSE IF Head(elems).text = None THEN TextsOf(Tail(elems))
       ELSE <<Head(elems).text>> \o TextsOf(Tail(elems))

\* 245: " ".join(soup.stripped_strings)
FullText(html) ==
  Join(StripNonEmpty(TextsOf(AllControls(html.forms)) \o TextsOf(html.labels)), <<" ">>)

\* 257-261: the tables whose id ends with datossolicitud, in document order
DatosTables(html) ==
  SelectSeq([t \in 1..Len(html.tables) |-> t],
            LAMBDA t : EndsWith(Lower(Strip(OrEmpty(html.tables[t].id))), S_datossolicitud))

\* 265-273: the text of the label that follows, anywhere in the document,
\* the table's first label matching estado\s*siniestro; None without one or
\* when it is blank
EstadoByPattern(html, t) ==
  LET hit == First({i \in 1..Len(html.labels) :
                      /\ html.labels[i].table = t
                      /\ html.labels[i].text # None
                      /\ MatchesEstadoSiniestro(html.labels[i].text)})
  IN IF hit = 0 \/ hit + 1 > Len(html.labels) THEN None
     ELSE IF Strip(OrEmpty(html.labels[hit + 1].text)) # <<>>
          THEN Strip(OrEmpty(html.labels[hit + 1].text)) ELSE None

\* 275-284: over the table's own labels, the text of the label after the
\* first one that holds "estado siniestro" and is followed by a non-blank one
EstadoByEnumeration(html, t) ==
  LET labels == SelectSeq(html.labels, LAMBDA lab : lab.table = t)
      hit == First({i \in 1..Len(labels) :
                      /\ Strip(OrEmpty(labels[i].text)) # <<>>
                      /\ Contains(Lower(Strip(OrEmpty(labels[i].text))),
                                  <<"e","s","t","a","d","o"," ","s","i","n","i","e","s","t","r","o">>)
                      /\ i + 1 <= Len(labels)
                      /\ Strip(OrEmpty(labels[i + 1].text)) # <<>>})
  IN IF hit = 0 THEN None ELSE Strip(OrEmpty(labels[hit + 1].text))

RECURSIVE EstadoFromDatos(_, _)
\* 263-284: the first value one of the datos tables gives, or None
EstadoFromDatos(html, ts) ==
  IF ts = <<>> THEN None
  ELSE IF EstadoByPattern(html, Head(ts)) # None THEN EstadoByPattern(html, Head(ts))
  ELSE IF EstadoByEnumeration(html, Head(ts)) # None THEN EstadoByEnumeration(html, Head(ts))
  ELSE EstadoFromDatos(html, Tail(ts))

\* 287-296: the phrases that mean no result
NoResultMarkers ==
  { <<"n","o"," ","s","e"," ","e","n","c","o","n","t","r","a","r","o","n">>,
    <<"s","i","n"," ","r","e","s","u","l","t","a","d","o","s">>,
    <<"n","o"," ","e","x","i","s","t","e","n"," ","r","e","g","i","s","t","r","o","s">>,
    <<"n","o"," ","e","x","i","s","t","e">>,
    <<"n","o"," ","e","n","c","o","n","t","r","a","d","o">> }

HasNoResultMarker(full_text_lower) ==
  \E marker \in NoResultMarkers : Contains(full_text_lower, marker)

\* the word w stands in s at i
WordAt(s, i, w) == i + Len(w) - 1 <= Len(s) /\ SubSeq(s, i, i + Len(w) - 1) = w

RECURSIVE WordsEnd(_, _, _)
\* the position after words[1] \s+ words[2] \s+ ... matched in s from i, or 0
WordsEnd(s, i, words) ==
  IF ~WordAt(s, i, Head(words)) THEN 0
  ELSE IF Len(words) = 1 THEN i + Len(Head(words))
  ELSE LET j == SkipWs(s, i + Len(Head(words))) IN
       IF j = i + Len(Head(words)) THEN 0 ELSE WordsEnd(s, j, Tail(words))

\* the alternatives of the regular expression of line 353, in its order
KeywordAlternatives ==
  << << <<"d","e","s","i","s","t","i","d","o">> >>,
     << <<"d","e","s","i","s","t","i","d","a">> >>,
     << <<"r","e","p","o","r","t","a","d","o">> >>,
     << <<"r","e","p","o","r","t","a","d","a">> >>,
     << <<"s","i","n">>, <<"d","e","s","i","s","t","i","r">> >>,
     << <<"n","o">>, <<"h","a">>, <<"p","a","g","a","d","o">> >> >>

\* the position after the match of alternative a at i, word boundaries
\* included, or 0
KeywordEndAt(s, i, a) ==
  LET e == WordsEnd(s, i, KeywordAlternatives[a]) IN
  IF e # 0 /\ (i = 1 \/ ~IsWordChar(s[i - 1])) /\ (e > Len(s) \/ ~IsWordChar(s[e]))
  THEN e ELSE 0

\* 352-357: m.group(0) of re.search over the lower-cased text, or None
KeywordMatch(s) ==
  LET at == First({i \in 1..Len(s) :
                     \E a \in 1..Len(KeywordAlternatives) : KeywordEndAt(s, i, a) # 0})
      alt == First({a \in 1..Len(KeywordAlternatives) : at # 0 /\ KeywordEndAt(s, at, a) # 0})
  IN IF at = 0 THEN None ELSE SubSeq(s, at, KeywordEndAt(s, at, alt) - 1)

\* 364: compact[:180]
CompactLimit == 180

\* _extract_estado_from_html.  Two of its steps find nothing on the pages
\* modelled: the "informacion" step (299-329) reads table rows, which the
\* page records do not have, and the "estado" text step (331-349) compares a
\* text with the first text after its parent's start tag, which is that
\* same text when an element holds one text only.
extract_estado_from_html(doc) ==
  LET html == UnwrappedHtml(doc)
      full_text == FullText(html)
      full_text_lower == Lower(full_text)
      from_datos == EstadoFromDatos(html, DatosTables(html))
      m == KeywordMatch(full_text_lower)
      compact == Strip(CollapseWs(full_text))
  IN IF from_datos # None THEN normalize_estado(from_datos)
     ELSE IF HasNoResultMarker(full_text_lower) THEN NO_ENCONTRADO
     ELSE IF m # None THEN normalize_estado(m)
     ELSE IF compact # <<>>
          THEN SubSeq(compact, 1, IF Len(compact) < CompactLimit THEN Len(compact) ELSE CompactLimit)
          ELSE NO_ENCONTRADO

\* ---------------------------------------------------------------- state

VARIABLES
  request,     \* the batch request body: cookie, radicados, use_server_auth
  env,         \* LIBERTADOR_USER / LIBERTADOR_PASS of the process environment
  vpc,         \* the caller: "received", "loop", "responded" (bolivar_radicados), "direct" (a caller of the Session class)
  response,    \* the HTTP response of bolivar_radicados
  radicados,   \* the normalized identifiers
  idx,         \* the loop's position in radicados
  results,     \* the BolivarResult list
  session,     \* the SegurosBolivarSession object
  qpc,         \* where get_info_for_radicado stands
  radicado,    \* its argument
  qret,        \* what it returned or raised
  inflight,    \* the portal request awaiting its response
  index_html,  \* the landing page the call has fetched
  hops,        \* iterations of authenticate's redirect loop already used
  qsent,       \* portal requests the running query has issued
  contacted,   \* a portal request has been issued
  logins,      \* how many times authenticate() was started
  calls,       \* calls made by the direct caller
  resp,        \* the body of the search response the call has received
  status,      \* how the call's last portal request was answered
  other        \* the locals of a second invocation of bolivar_radicados, suspended

vars == <<request, env, vpc, response, radicados, idx, results, session, qpc,
          radicado, qret, inflight, index_html, hops, qsent, contacted, logins,
          calls, resp, status, other>>

viewVars == <<request, env, vpc, response, radicados, idx, results, calls, other>>

NoSession ==
  [exists |-> FALSE, cookie_header |-> <<>>, use_server_auth |-> FALSE,
   user_id |-> None, password |-> None, view_state_value |-> None,
   is_authenticated |-> FALSE, cookies |-> <<>>]

NoRequest == [kind |-> "none"]

NoRet == [kind |-> "none"]

\* no landing page fetched (yet) by the call
NoDoc == [marker |-> FALSE, xml_ok |-> FALSE, updates |-> <<>>, html |-> EmptyHtml, none |-> TRUE]

Fetched(doc) == "none" \notin DOMAIN doc

NoResponse == [status |-> 0]

\* no second invocation
NoBatch == [vpc |-> "none"]

\* SegurosBolivarSession.__init__: the object, or raised when
\* _apply_cookie_header raises
NewSession(cookie_header, use_server_auth, environ) ==
  LET header == Strip(OrEmpty(cookie_header))
      applied == IF header # <<>> THEN apply_cookie_header(header)
                 ELSE [raised |-> FALSE, jar |-> <<>>]
  IN [raised |-> applied.raised,
      session |-> [exists |-> TRUE, cookie_header |-> header,
                   use_server_auth |-> use_server_auth,
                   user_id |-> environ.user, password |-> environ.password,
                   view_state_value |-> None, is_authenticated |-> FALSE,
                   cookies |-> applied.jar]]

\* bool(request.data.get("use_server_auth")) of a JSON null, false or true
Bool(json) == json = "true"

\* ------------------------------------------------------ bolivar_radicados

\* a variant that lets every request through
MissingAuthNever(cookie_header, use_server_auth) == FALSE

\* views.py 212: if not cookie_header and not use_server_auth
MissingAuth(cookie_header, use_server_auth) == ~Truthy(cookie_header) /\ ~use_server_auth

\* views.py 208-239: validation and the construction of the session
Receive ==
  /\ vpc = "received"
  /\ LET cookie_header == normalize_cookie_header(request.cookie)
         rads == normalize_radicados(request.radicados)
         use_server_auth == Bool(request.use_server_auth)
         made == NewSession(IF Truthy(cookie_header) THEN cookie_header ELSE None,
                            use_server_auth, env)
     IN IF MissingAuth(cookie_header, use_server_auth)
        THEN /\ response' = [status |-> 400, detail |-> "missing_auth"]
             /\ vpc' = "responded"
             /\ UNCHANGED <<radicados, session>>
        ELSE IF rads = <<>>
        THEN /\ response' = [status |-> 400, detail |-> "missing_radicados"]
             /\ vpc' = "responded"
             /\ UNCHANGED <<radicados, session>>
        ELSE IF made.raised
        THEN /\ response' = [status |-> 400, detail |-> "session_init"]
             /\ vpc' = "responded"
             /\ UNCHANGED <<radicados, session>>
        ELSE /\ vpc' = "loop"
             /\ radicados' = rads
             /\ session' = made.session
             /\ UNCHANGED response
  /\ UNCHANGED <<other, request, env, idx, results, qpc, radicado, qret, inflight,
                 index_html, hops, qsent, contacted, logins, calls, resp, status>>

\* ------------------------------------------------- get_info_for_radicado

Raised(exc, msg) == [kind |-> "raise", exc |-> exc, error |-> <<msg>>]

Returned(tuple) == [kind |-> "return", value |-> tuple]

\* the query ends by raising: nothing is in flight any more
Raise(exc, msg) ==
  /\ qret' = Raised(exc, msg)
  /\ qpc' = "done"
  /\ inflight' = NoRequest
  /\ UNCHANGED <<qsent, contacted>>

\* the query ends by returning
Return(tuple) ==
  /\ qret' = Returned(tuple)
  /\ qpc' = "done"
  /\ inflight' = NoRequest
  /\ UNCHANGED <<qsent, contacted>>

\* a variant that issues the request a second time
SendTwice(req, pc) ==
  /\ inflight' = req
  /\ qpc' = pc
  /\ qsent' = qsent + 2
  /\ contacted' = TRUE
  /\ qret' = NoRet

\* a portal request is issued and the query waits for its response
Send(req, pc) ==
  /\ inflight' = req
  /\ qpc' = pc
  /\ qsent' = qsent + 1
  /\ contacted' = TRUE
  /\ qret' = NoRet

\* _get_index, line 185: the landing-page GET
IndexGet == [kind |-> "GET_INDEX"]

\* a variant that does not strip the argument
SolicitudUnstripped(r) == OrEmpty(r)

\* get_info_for_radicado 412: solicitud = (radicado or "").strip()
Solicitud(r) == Strip(OrEmpty(r))

\* a variant that looks at the user only
CredentialsMissingUserOnly(s) == ~Truthy(s.user_id)

\* ensure_authenticated 116: if not self.user_id or not self.password
CredentialsMissing(s) == ~Truthy(s.user_id) \/ ~Truthy(s.password)

\* a variant that never takes the early return
AlreadyAuthenticatedNever(s) == FALSE

\* ensure_authenticated 103: if self._is_authenticated: return
AlreadyAuthenticated(s) == s.is_authenticated

\* get_info_for_radicado 412-418 with ensure_authenticated 102-121 and the
\* first request of authenticate (550) or of _get_index (185)
StartQuery(r) ==
  /\ radicado' = r
  /\ index_html' = NoDoc
  /\ resp' = NoDoc
  /\ status' = "none"
  /\ hops' = 0
  /\ IF ~Truthy(Solicitud(r))
     THEN /\ Return(<<NO_ENCONTRADO, NO_ENCONTRADO, None>>)
          /\ UNCHANGED <<session, logins>>
     ELSE IF AlreadyAuthenticated(session)
     THEN Send(IndexGet, "get") /\ UNCHANGED <<session, logins>>
     ELSE IF Truthy(session.cookie_header)
     THEN /\ session' = [session EXCEPT !.is_authenticated = TRUE]
          /\ Send(IndexGet, "get")
          /\ UNCHANGED logins
     ELSE IF ~session.use_server_auth
     THEN Raise("ValueError", "no_cookie") /\ UNCHANGED <<session, logins>>
     ELSE IF CredentialsMissing(session)
     THEN Raise("ValueError", "no_credentials") /\ UNCHANGED <<session, logins>>
     ELSE /\ Send([kind |-> "POST_LOGIN"], "login_cred")
          /\ logins' = logins + 1
          /\ UNCHANGED session

\* ------------------------------------------------------------ the portal
\* What the portal may answer.  Tokens, pages and responses are drawn from
\* the small sets below.

Tok1 == <<"t","1">>

Tok2 == <<"t","2">>

Ctl(tag, type, name, id, value, text) ==
  [tag |-> tag, type |-> type, name |-> name, id |-> id, value |-> value, text |-> text]

ViewStateInput(value) ==
  Ctl("input", S_hidden, VIEWSTATE, <<"j","_","i","d","1",":","j","a","v","a","x",".","f","a","c","e","s",".","V","i","e","w","S","t","a","t","e",":","0">>, value, None)

\* the search form of index.xhtml; vs = <<>> renders no token field
SearchForm(vs) ==
  [id |-> S_FormIndex, name |-> S_FormIndex,
   action |-> <<"/","i","n","d","e","m","n","i","z","a","c","i","o","n","e","s","-","w","e","b","/","p","a","g","e","s","/","i","n","d","e","x",".","x","h","t","m","l">>,
   controls |-> << Ctl("input", S_hidden, S_FormIndex, None, S_FormIndex, None),
                   Ctl("input", <<"t","e","x","t">>, <<"F","o","r","m","I","n","d","e","x",":","b","u","s","q","u","e","d","a">>, <<"F","o","r","m","I","n","d","e","x",":","b","u","s","q","u","e","d","a">>, None, None),
                   Ctl("button", <<"s","u","b","m","i","t">>, <<"F","o","r","m","I","n","d","e","x",":","j","_","i","d","t","2","5">>, <<"F","o","r","m","I","n","d","e","x",":","j","_","i","d","t","2","5">>, None, <<"B","U","S","C","A","R">>) >>
                \o vs]

\* the navigation menu's form, which carries its own token field
MenuForm(vs) ==
  [id |-> <<"m","e","n","u","F","o","r","m">>, name |-> <<"m","e","n","u","F","o","r","m">>,
   action |-> <<"/","i","n","d","e","m","n","i","z","a","c","i","o","n","e","s","-","w","e","b","/","p","a","g","e","s","/","i","n","d","e","x",".","x","h","t","m","l">>,
   controls |-> << Ctl("input", S_hidden, <<"m","e","n","u","F","o","r","m">>, None, <<"m","e","n","u","F","o","r","m">>, None),
                   Ctl("button", <<"s","u","b","m","i","t">>, <<"m","e","n","u","F","o","r","m",":","s","a","l","i","r">>, <<"m","e","n","u","F","o","r","m",":","s","a","l","i","r">>, None, <<"S","a","l","i","r">>) >>
                \o vs]

FullPage(html) == [marker |-> FALSE, xml_ok |-> FALSE, updates |-> <<>>, html |-> html]

PageSearch(value) ==
  FullPage([forms |-> << MenuForm(<<ViewStateInput(value)>>), SearchForm(<<ViewStateInput(value)>>) >>,
            tables |-> <<>>, labels |-> <<>>])

PageSearchNoToken ==
  FullPage([forms |-> << SearchForm(<<>>) >>, tables |-> <<>>, labels |-> <<>>])

PageMenuOnly(value) ==
  FullPage([forms |-> << MenuForm(<<ViewStateInput(value)>>) >>, tables |-> <<>>, labels |-> <<>>])

PageNoForm == FullPage(EmptyHtml)

Lbl(text, table) == [text |-> text, table |-> table]

DatosHtml(estado, forms) ==
  [forms |-> forms,
   tables |-> << [id |-> <<"F","o","r","m","I","n","d","e","x",":","d","a","t","o","s","S","o","l","i","c","i","t","u","d">>] >>,
   labels |-> << Lbl(<<"E","s","t","a","d","o"," ","S","i","n","i","e","s","t","r","o",":">>, 1), Lbl(estado, 1),
                 Lbl(<<"I","n","q","u","i","l","i","n","o",":">>, 1), Lbl(<<"J","U","A","N">>, 1) >>]

\* a full page with the request-data table
RespFound(estado, value) ==
  FullPage(DatosHtml(estado, << SearchForm(<<ViewStateInput(value)>>) >>))

\* a partial-response envelope: the panel with the table, and the new token
RespPartial(estado, value) ==
  [marker |-> TRUE, xml_ok |-> TRUE,
   updates |-> << [id |-> <<"F","o","r","m","I","n","d","e","x",":","p","a","n","e","l">>, text |-> <<"<","t","a","b","l","e",">">>, html |-> DatosHtml(estado, <<>>)],
                  [id |-> <<"j","_","i","d","1",":","j","a","v","a","x",".","f","a","c","e","s",".","V","i","e","w","S","t","a","t","e",":","0">>, text |-> value, html |-> EmptyHtml] >>,
   html |-> EmptyHtml]

\* an envelope ElementTree cannot parse
RespBroken == [marker |-> TRUE, xml_ok |-> FALSE, updates |-> <<>>, html |-> EmptyHtml]

\* the landing pages GET index.xhtml may return
LandingPages ==
  { PageSearch(Tok1), PageSearch(Tok2), PageSearchNoToken, PageMenuOnly(Tok1), PageNoForm }

\* the bodies a form POST may return
SearchResponses ==
  { RespFound(<<"N","u","e","v","o">>, Tok2), RespPartial(<<"D","e","s","i","s","t","i","d","o">>, Tok1), PageSearch(Tok2), RespBroken }

\* the final pages of the login sequence
LoginPages ==
  { PageSearch(Tok1), PageSearch(None), PageSearch(<<>>), PageNoForm }

\* --------------------------------------------------------- authenticate
\* The cookies the portal sets during the exchange live in the HTTP client's
\* store; session.cookies tracks the entries _apply_cookie_header put there.

\* authenticate 557: for _ in range(3)
MaxRedirects == 3

\* authenticate 550-555: the credential POST is answered (its status is not
\* looked at); login.html is requested without following redirects
LoginCredResp ==
  /\ qpc = "login_cred"
  /\ \E outcome \in {"connection", "ok", "error"} :
       /\ status' = outcome
       /\ IF outcome = "connection"
          THEN Raise("ConnectionError", "connection")
          ELSE Send([kind |-> "GET_LOGIN"], "login_page")
  /\ UNCHANGED <<viewVars, session, radicado, index_html, hops, logins, resp>>

\* authenticate 557-572: the redirect loop (at most 3 iterations), then the
\* role-selection POST
LoginPageResp ==
  /\ qpc = "login_page"
  /\ \E outcome \in {"connection", "ok", "error", "redirect", "redirect_no_location"} :
       /\ status' = outcome
       /\ IF outcome = "connection"
          THEN Raise("ConnectionError", "connection") /\ hops' = 0
          ELSE IF hops < MaxRedirects /\ outcome = "redirect"
               THEN Send([kind |-> "GET_REDIRECT"], "login_page") /\ hops' = hops + 1
               ELSE Send([kind |-> "POST_ROLE"], "login_role") /\ hops' = 0
  /\ UNCHANGED <<viewVars, session, radicado, index_html, logins, resp>>

\* authenticate 574-577: the landing page is requested without following
\* redirects
LoginRoleResp ==
  /\ qpc = "login_role"
  /\ \E outcome \in {"connection", "ok", "error"} :
       /\ status' = outcome
       /\ IF outcome = "connection"
          THEN Raise("ConnectionError", "connection")
          ELSE Send([kind |-> "GET_LANDING"], "login_landing")
  /\ UNCHANGED <<viewVars, session, radicado, index_html, hops, logins, resp>>

\* authenticate 587-593 and ensure_authenticated 122, then _get_index 185
FinishLogin(doc) ==
  /\ status' = "ok"
  /\ IF ~HasViewStateElement(doc.html)
     THEN Raise("Exception", "login_no_viewstate") /\ UNCHANGED session
     ELSE /\ session' = [session EXCEPT !.view_state_value = ViewStateElementValue(doc.html),
                                        !.is_authenticated = TRUE]
          /\ Send(IndexGet, "get")

\* authenticate 579-585: the landing response
LoginLandingResp ==
  /\ qpc = "login_landing"
  /\ \/ \E outcome \in {"connection", "redirect", "redirect_no_location"} :
          /\ status' = outcome
          /\ UNCHANGED session
          /\ CASE outcome = "connection" ->
                    Raise("ConnectionError", "connection")
               [] outcome = "redirect_no_location" ->
                    Raise("Exception", "landing_redirect_no_location")
               [] outcome = "redirect" ->
                    Send([kind |-> "GET_FINAL"], "login_final")
     \/ \E doc \in LoginPages : FinishLogin(doc)
  /\ UNCHANGED <<viewVars, radicado, index_html, hops, logins, resp>>

\* authenticate 583: the page the landing redirect led to
LoginFinalResp ==
  /\ qpc = "login_final"
  /\ \/ Raise("ConnectionError", "connection") /\ status' = "connection" /\ UNCHANGED session
     \/ \E doc \in LoginPages : FinishLogin(doc)
  /\ UNCHANGED <<viewVars, radicado, index_html, hops, logins, resp>>

\* ------------------------------------------------- the query's requests

\* a variant that lets an empty token through
TokenMissingNoneOnly(view_state_value) == view_state_value = None

\* get_info_for_radicado 419: if not self.view_state_value
TokenMissing(view_state_value) == ~Truthy(view_state_value)

\* _get_index 185-188 and get_info_for_radicado 418-499: the landing page
\* arrives; the token is refreshed, the form resolved, the POST sent
IndexRespWith(pages) ==
  /\ qpc = "get"
  /\ \/ \E outcome \in {"timeout", "http_error"} :
          /\ IF outcome = "timeout"
             THEN Raise("Timeout", "timeout")
             ELSE Raise("HTTPError", "http_error")
          /\ status' = outcome
          /\ UNCHANGED <<session, index_html>>
     \/ \E doc \in pages :
          LET vs == refresh_view_state_from_html(doc, session.view_state_value) IN
          /\ session' = [session EXCEPT !.view_state_value = vs]
          /\ index_html' = doc
          /\ status' = "ok"
          /\ IF TokenMissing(vs)
             THEN Raise("Exception", "no_viewstate")
             ELSE IF NoFormFound(doc.html)
             THEN Raise("Exception", "no_form")
             ELSE Send(BuildPost(find_search_form(doc.html), Solicitud(radicado), vs), "post")
  /\ UNCHANGED <<viewVars, radicado, hops, logins, resp>>

\* the landing page is one of the portal's usual pages
IndexResp == IndexRespWith(LandingPages)

\* get_info_for_radicado 500-508: the search response arrives
SubmitRespWith(pages) ==
  /\ qpc = "post"
  /\ \/ \E outcome \in {"timeout", "http_error"} :
          /\ IF outcome = "timeout"
             THEN Raise("Timeout", "timeout")
             ELSE Raise("HTTPError", "http_error")
          /\ status' = outcome
          /\ UNCHANGED <<session, resp>>
     \/ \E doc \in pages :
          /\ session' = [session EXCEPT
                 !.view_state_value = refresh_view_state_from_html(doc, @)]
          /\ resp' = doc
          /\ status' = "ok"
          /\ Return(InfoResult(doc))
  /\ UNCHANGED <<viewVars, radicado, index_html, hops, logins>>

\* the search response is one of the portal's usual responses
SubmitResp == SubmitRespWith(SearchResponses)

\* ----------------------------------------------- bolivar_radicados' loop

\* views.py 241-246: the loop calls the session for the next identifier
LoopCall ==
  /\ vpc = "loop"
  /\ qpc = "idle"
  /\ idx <= Len(radicados)
  /\ StartQuery(radicados[idx])
  /\ UNCHANGED viewVars

\* a variant that fills the raw status of a failed result like the
\* normalized one
ResultOfFillsRaw(r, ret) ==
  [radicado |-> r, ok |-> ret.kind = "return",
   estado_raw |-> IF ret.kind = "return" THEN ret.value[1] ELSE NO_ENCONTRADO,
   estado_normalizado |-> IF ret.kind = "return" THEN ret.value[2] ELSE NO_ENCONTRADO,
   asegurado |-> IF ret.kind = "return" THEN ret.value[3] ELSE None,
   error |-> IF ret.kind = "return" THEN None ELSE ret.error]

\* a variant that loses the exception's message
ResultOfDropsError(r, ret) ==
  [radicado |-> r, ok |-> ret.kind = "return",
   estado_raw |-> IF ret.kind = "return" THEN ret.value[1] ELSE None,
   estado_normalizado |-> IF ret.kind = "return" THEN ret.value[2] ELSE NO_ENCONTRADO,
   asegurado |-> IF ret.kind = "return" THEN ret.value[3] ELSE None,
   error |-> None]

\* views.py 247-281: the BolivarResult appended for what the call returned
\* or raised
ResultOf(r, ret) ==
  IF ret.kind = "return"
  THEN [radicado |-> r, ok |-> TRUE, estado_raw |-> ret.value[1],
        estado_normalizado |-> ret.value[2], asegurado |-> ret.value[3],
        error |-> None]
  ELSE IF ret.exc = "NotImplementedError"
  THEN [radicado |-> r, ok |-> FALSE, estado_raw |-> None,
        estado_normalizado |-> NO_ENCONTRADO, asegurado |-> None,
        error |-> ret.error]
  ELSE [radicado |-> r, ok |-> FALSE, estado_raw |-> None,
        estado_normalizado |-> NO_ENCONTRADO, asegurado |-> None,
        error |-> ret.error]

LoopHandle ==
  /\ vpc = "loop"
  /\ qpc = "done"
  /\ results' = Append(results, ResultOf(radicados[idx], qret))
  /\ idx' = idx + 1
  /\ qpc' = "idle"
  /\ qret' = NoRet
  /\ qsent' = 0
  /\ radicado' = None
  /\ index_html' = NoDoc
  /\ resp' = NoDoc
  /\ status' = "none"
  /\ UNCHANGED <<other, request, env, vpc, response, radicados, session, inflight,
                 hops, contacted, logins, calls>>

\* views.py 60-70: the dict sent for a BolivarResult (consulted_at, a clock
\* reading, is left out of the model's results)
to_result_dict(result) ==
  [radicado |-> result.radicado, ok |-> result.ok,
   estado_raw |-> result.estado_raw,
   estado_normalizado |-> result.estado_normalizado,
   asegurado |-> result.asegurado, error |-> result.error]

\* views.py 283-289
Respond ==
  /\ vpc = "loop"
  /\ qpc = "idle"
  /\ idx > Len(radicados)
  /\ response' = [status |-> 200, count |-> Len(results),
                  results |-> [i \in 1..Len(results) |-> to_result_dict(results[i])]]
  /\ vpc' = "responded"
  /\ UNCHANGED <<other, request, env, radicados, idx, results, session, qpc, radicado,
                 qret, inflight, index_html, hops, qsent, contacted, logins, calls,
                 resp, status>>

\* ---------------------------------------------------------------- bounds

MaxCookieLen == 3

MaxTextLen == 3

MaxItems == 2

MaxCalls == 2

MaxForms == 2

MaxControls == 2

MaxWords == 2

MaxLabels == 2

\* ------------------------------------------------------------ the inputs

\* all concatenations of at most n of the pieces
RECURSIVE Concats(_, _)
Concats(pieces, n) ==
  IF n = 0 THEN {<<>>}
  ELSE LET shorter == Concats(pieces, n - 1) IN
       shorter \cup {s \o p : s \in shorter, p \in pieces}

CookiePieces == {<<"a">>, <<"=">>, <<";">>, <<" ">>, <<"C","o","o","k","i","e",":">>}

CookieInputs == {None} \cup Concats(CookiePieces, MaxCookieLen)

GoodCookie == <<"a","=","a">>

RadicadoPieces == {<<"A">>, <<"B">>, <<",">>, <<";">>, <<"\n">>, <<" ">>}

ItemInputs == {<<>>, <<"A">>, <<" ","A">>, <<"B">>}

RECURSIVE Lists(_, _)
Lists(items, n) ==
  IF n = 0 THEN {<<>>}
  ELSE LET shorter == Lists(items, n - 1) IN
       shorter \cup {Append(l, x) : l \in shorter, x \in items}

RadicadoInputs ==
  {[kind |-> "null"]}
  \cup {[kind |-> "str", text |-> t] : t \in Concats(RadicadoPieces, MaxTextLen)}
  \cup {[kind |-> "list", items |-> l] : l \in Lists(ItemInputs, MaxItems)}
  \cup {[kind |-> "other", text |-> t] : t \in {<<"A">>, <<" ">>}}

OneRadicado == [kind |-> "list", items |-> <<<<"A">>>>]

Environments ==
  { [user |-> None, password |-> None], [user |-> <<"u">>, password |-> None],
    [user |-> <<"u">>, password |-> <<>>], [user |-> <<"u">>, password |-> <<"p">>] }

FullEnvironment == [user |-> <<"u">>, password |-> <<"p">>]

TwoRadicados == [kind |-> "list", items |-> <<<<"A">>, <<"B">>>>]

Flags == {"null", "false", "true"}

\* The requests and environments explored: any one of the cookie, the
\* identifier input and the environment ranges over its whole set while the
\* other two stay on plain values.
Init ==
  /\ \/ /\ request \in [cookie : CookieInputs, radicados : {OneRadicado},
                         use_server_auth : {"false", "true"}]
        /\ env = FullEnvironment
     \/ /\ request \in [cookie : {None, GoodCookie}, radicados : RadicadoInputs,
                         use_server_auth : {"null"}]
        /\ env = FullEnvironment
     \/ /\ request \in [cookie : {None, GoodCookie}, radicados : {OneRadicado, TwoRadicados},
                         use_server_auth : Flags]
        /\ env \in Environments
  /\ vpc = "received"
  /\ response = NoResponse
  /\ radicados = <<>>
  /\ idx = 1
  /\ results = <<>>
  /\ session = NoSession
  /\ qpc = "idle"
  /\ radicado = None
  /\ qret = NoRet
  /\ inflight = NoRequest
  /\ index_html = NoDoc
  /\ resp = NoDoc
  /\ status = "none"
  /\ hops = 0
  /\ qsent = 0
  /\ contacted = FALSE
  /\ logins = 0
  /\ calls = 0
  /\ other = NoBatch

Next ==
  \/ Receive
  \/ LoopCall
  \/ LoginCredResp
  \/ LoginPageResp
  \/ LoginRoleResp
  \/ LoginLandingResp
  \/ LoginFinalResp
  \/ IndexResp
  \/ SubmitResp
  \/ LoopHandle
  \/ Respond

Spec == Init /\ [][Next]_vars

\* ------------------------------------------- the session used on its own
\* SegurosBolivarSession constructed by a caller other than the endpoint and
\* queried MaxCalls times with arguments of the caller's choosing.

DirectCookies == {None, <<>>, <<"a">>, GoodCookie}

DirectArgs == {None, <<>>, <<" ">>, <<"A">>, <<" ", "A", " ">>}

InitSession ==
  /\ \E c \in DirectCookies, u \in BOOLEAN :
       /\ env \in Environments
       /\ ~NewSession(c, u, env).raised
       /\ session = NewSession(c, u, env).session
       /\ request = [cookie |-> c, radicados |-> [kind |-> "null"],
                     use_server_auth |-> IF u THEN "true" ELSE "false"]
  /\ vpc = "direct"
  /\ response = NoResponse
  /\ radicados = <<>>
  /\ idx = 1
  /\ results = <<>>
  /\ qpc = "idle"
  /\ radicado = None
  /\ qret = NoRet
  /\ inflight = NoRequest
  /\ index_html = NoDoc
  /\ resp = NoDoc
  /\ status = "none"
  /\ hops = 0
  /\ qsent = 0
  /\ contacted = FALSE
  /\ logins = 0
  /\ calls = 0
  /\ other = NoBatch

\* the caller calls get_info_for_radicado
DirectCall ==
  /\ vpc = "direct"
  /\ qpc = "idle"
  /\ calls < MaxCalls
  /\ \E r \in DirectArgs : StartQuery(r)
  /\ calls' = calls + 1
  /\ UNCHANGED <<other, request, env, vpc, response, radicados, idx, results>>

\* the call has returned or raised and the caller goes on
DirectReturn ==
  /\ vpc = "direct"
  /\ qpc = "done"
  /\ qpc' = "idle"
  /\ qret' = NoRet
  /\ qsent' = 0
  /\ radicado' = None
  /\ index_html' = NoDoc
  /\ resp' = NoDoc
  /\ status' = "none"
  /\ UNCHANGED <<viewVars, session, inflight, hops, contacted, logins>>

NextSession ==
  \/ DirectCall
  \/ LoginCredResp
  \/ LoginPageResp
  \/ LoginRoleResp
  \/ LoginLandingResp
  \/ LoginFinalResp
  \/ IndexResp
  \/ SubmitResp
  \/ DirectReturn

SpecSession == InitSession /\ [][NextSession]_vars

\* ---------------------------------------------------------- SpecForms
\* The form handling of get_info_for_radicado (_find_search_form and the
\* payload construction) applied to landing pages of every shape: a cookie
\* session that has already completed a query and holds a token is called
\* once more and the portal answers the landing GET with any page made of
\* at most MaxForms forms, or with one form of at most MaxControls controls.

\* the finite sequences over S of length at most n
SeqsUpTo(S, n) == UNION {[1..k -> S] : k \in 0..n}

\* a form by what _find_search_form looks at: its id, its action, whether it
\* holds a search field and whether it holds a token field
ShapeForm(canonical, index, search, token) ==
  [id |-> IF canonical THEN S_FormIndex ELSE <<"f">>,
   name |-> None,
   action |-> IF index THEN <<"/","w","e","b","/","p","a","g","e","s","/","i","n","d","e","x",".","x","h","t","m","l">>
              ELSE <<"/","w","e","b","/","s","a","l","i","r">>,
   controls |->
     (IF search
      THEN << Ctl("input", <<"t","e","x","t">>, <<"f",":","b","u","s","q","u","e","d","a">>, None, None, None) >>
      ELSE << Ctl("input", <<"t","e","x","t">>, <<"f",":","q">>, None, None, None) >>)
     \o << Ctl("button", <<"s","u","b","m","i","t">>, <<"f",":","j","_","i","d","t","7">>, None, None, <<"O","K">>) >>
     \o (IF token THEN << ViewStateInput(Tok2) >> ELSE <<>>)]

ShapeForms ==
  { ShapeForm(c, i, s, t) : c \in BOOLEAN, i \in BOOLEAN, s \in BOOLEAN, t \in BOOLEAN }

\* the controls a form may hold
ControlKinds ==
  { Ctl("input", S_hidden, <<"h">>, None, <<"v">>, None),
    Ctl("input", S_hidden, <<"o","k">>, None, <<"1">>, None),
    Ctl("input", <<"t","e","x","t">>, <<"F","o","r","m","I","n","d","e","x",":","b","u","s","q","u","e","d","a">>, <<"F","o","r","m","I","n","d","e","x",":","b","u","s","q","u","e","d","a">>, None, None),
    Ctl("input", None, <<"b","u","s","q","u","e","d","a">>, None, None, None),
    Ctl("textarea", None, None, <<"q",":","B","u","s","q","u","e","d","a">>, None, None),
    Ctl("button", <<"s","u","b","m","i","t">>, <<"b">>, None, None, <<"B","U","S","C","A","R">>),
    Ctl("button", None, <<"f",":","j","_","i","d","t","2","5">>, None, None, <<"G","o">>),
    Ctl("button", <<"b","u","t","t","o","n">>, <<"o","k">>, None, None, <<"O","K">>),
    Ctl("input", <<"s","u","b","m","i","t">>, <<"g","o">>, None, <<"G","o">>, None),
    ViewStateInput(Tok2) }

\* the canonical search form's shell around the given controls
ControlForm(controls) ==
  [id |-> S_FormIndex, name |-> S_FormIndex,
   action |-> <<"/","w","e","b","/","p","a","g","e","s","/","i","n","d","e","x",".","x","h","t","m","l">>,
   controls |-> controls]

FormsPages ==
  { FullPage([forms |-> fs, tables |-> <<>>, labels |-> <<>>]) :
      fs \in SeqsUpTo(ShapeForms, MaxForms) }
  \cup
  { FullPage([forms |-> << ControlForm(cs) >>, tables |-> <<>>, labels |-> <<>>]) :
      cs \in SeqsUpTo(ControlKinds, MaxControls) }

\* the landing page is any page of FormsPages
IndexRespForms == IndexRespWith(FormsPages)

\* a cookie session after a completed query, on the last call of its caller
InitForms ==
  /\ env = FullEnvironment
  /\ session = [NewSession(GoodCookie, FALSE, FullEnvironment).session EXCEPT
                  !.is_authenticated = TRUE, !.view_state_value = Tok1]
  /\ request = [cookie |-> GoodCookie, radicados |-> [kind |-> "null"],
                use_server_auth |-> "false"]
  /\ vpc = "direct"
  /\ response = NoResponse
  /\ radicados = <<>>
  /\ idx = 1
  /\ results = <<>>
  /\ qpc = "idle"
  /\ radicado = None
  /\ qret = NoRet
  /\ inflight = NoRequest
  /\ index_html = NoDoc
  /\ resp = NoDoc
  /\ status = "none"
  /\ hops = 0
  /\ qsent = 0
  /\ contacted = TRUE
  /\ logins = 0
  /\ calls = MaxCalls - 1
  /\ other = NoBatch

NextForms ==
  \/ DirectCall
  \/ IndexRespForms
  \/ SubmitResp
  \/ DirectReturn

SpecForms == InitForms /\ [][NextForms]_vars

\* -------------------------------------------------------- SpecExtract
\* The extraction and normalization of get_info_for_radicado, and the
\* heuristic extractor _extract_estado_from_html called on its own, applied
\* to responses of every shape: the request-data table filled with a status
\* text of at most MaxWords pieces, and pages of at most MaxLabels labels
\* inside or outside a table that is or is not the request-data table.

EstadoPieces ==
  { <<"N","u","e","v","o">>, <<" ">>, <<"D","e","s","i","s","t">>, <<"R","e","p","o","r","t">>,
    <<"s","i","n"," ">>, <<"N","o"," ","h","a"," ","p","a","g","a","d","o">>,
    <<"s","i","n"," ","p","a","g","a","r">>, <<"a">>, <<" "," ","b">> }

EstadoTexts == Concats(EstadoPieces, MaxWords)

S_EstadoSiniestro == <<"E","s","t","a","d","o"," ","S","i","n","i","e","s","t","r","o",":">>

S_NoSeEncontraron == <<"N","o"," ","s","e"," ","e","n","c","o","n","t","r","a","r","o","n"," ","r","e","s","u","l","t","a","d","o","s",".">>

LabelTexts ==
  { S_EstadoSiniestro, <<"I","n","q","u","i","l","i","n","o",":">>, <<"N","u","e","v","o">>, <<>>,
    S_NoSeEncontraron, <<"S","i","n"," ","d","e","s","i","s","t","i","r">> }

\* a label outside any table (0) or inside the page's table (1)
LabelKinds == { Lbl(text, table) : text \in LabelTexts, table \in {0, 1} }

DatosTable == [id |-> <<"F","o","r","m","I","n","d","e","x",":","d","a","t","o","s","S","o","l","i","c","i","t","u","d">>]

OtherTable == [id |-> <<"F","o","r","m","I","n","d","e","x",":","o","b","j","e","c","i","o","n","e","s">>]

\* a partial-response envelope that is not well-formed XML: its text still
\* shows, to an HTML parser, the request-data table it was meant to carry
RespBrokenWith(estado) ==
  [marker |-> TRUE, xml_ok |-> FALSE,
   updates |-> << [id |-> <<"F","o","r","m","I","n","d","e","x",":","p","a","n","e","l">>, text |-> <<"<","t","a","b","l","e",">">>, html |-> EmptyHtml] >>,
   html |-> DatosHtml(estado, <<>>)]

ExtractResponses ==
  { RespFound(estado, Tok2) : estado \in EstadoTexts }
  \cup
  { FullPage([forms |-> <<>>, tables |-> << table >>, labels |-> ls]) :
      table \in {DatosTable, OtherTable}, ls \in SeqsUpTo(LabelKinds, MaxLabels) }
  \cup
  { FullPage([forms |-> <<>>, tables |-> <<>>, labels |-> ls]) :
      ls \in SeqsUpTo({ Lbl(text, 0) : text \in LabelTexts }, MaxLabels) }
  \cup
  { RespPartial(<<"N","u","e","v","o">>, Tok2), RespBroken, RespBrokenWith(<<"N","u","e","v","o">>) }

\* the search response is any response of ExtractResponses
SubmitRespExtract == SubmitRespWith(ExtractResponses)

\* the caller hands a response text to _extract_estado_from_html
ExtractEstadoCall ==
  /\ vpc = "direct"
  /\ qpc = "idle"
  /\ calls < MaxCalls
  /\ \E doc \in ExtractResponses :
       /\ resp' = doc
       /\ qret' = [kind |-> "estado", value |-> extract_estado_from_html(doc)]
  /\ qpc' = "done"
  /\ calls' = calls + 1
  /\ UNCHANGED <<other, request, env, vpc, response, radicados, idx, results, session,
                 radicado, inflight, index_html, hops, qsent, contacted, logins,
                 status>>

NextExtract ==
  \/ DirectCall
  \/ IndexResp
  \/ SubmitRespExtract
  \/ ExtractEstadoCall
  \/ DirectReturn

SpecExtract == InitForms /\ [][NextExtract]_vars

\* ------------------------------------------------ two concurrent batches
\* Two invocations of bolivar_radicados served by one process.  The
\* variables hold the locals of the invocation that runs; "other" holds the
\* locals of the one that waits.  The process environment is common to both.

\* the locals of the running invocation (views.py 208-289) and of the
\* Session call it is in
Frame ==
  [request |-> request, vpc |-> vpc, response |-> response,
   radicados |-> radicados, idx |-> idx, results |-> results,
   session |-> session, qpc |-> qpc, radicado |-> radicado, qret |-> qret,
   inflight |-> inflight, index_html |-> index_html, hops |-> hops,
   qsent |-> qsent, contacted |-> contacted, logins |-> logins,
   resp |-> resp, status |-> status]

\* a variant with one Session object for the whole process
ProcessSession(current, saved) == current

\* views.py 231: session is a local of the invocation, a new object built
\* from the invocation's own request; the invocation that resumes finds the
\* object it built
ResumedSession(current, saved) == saved

\* the running invocation is suspended and the waiting one resumes
Switch ==
  /\ other # NoBatch
  /\ other' = Frame
  /\ request' = other.request
  /\ vpc' = other.vpc
  /\ response' = other.response
  /\ radicados' = other.radicados
  /\ idx' = other.idx
  /\ results' = other.results
  /\ session' = ResumedSession(session, other.session)
  /\ qpc' = other.qpc
  /\ radicado' = other.radicado
  /\ qret' = other.qret
  /\ inflight' = other.inflight
  /\ index_html' = other.index_html
  /\ hops' = other.hops
  /\ qsent' = other.qsent
  /\ contacted' = other.contacted
  /\ logins' = other.logins
  /\ resp' = other.resp
  /\ status' = other.status
  /\ UNCHANGED <<env, calls>>

OtherCookie == <<"b","=","b">>

\* one batch of two identifiers with a pasted cookie, one batch of one
\* identifier with another pasted cookie
InitBatches ==
  /\ request = [cookie |-> GoodCookie, radicados |-> TwoRadicados,
                use_server_auth |-> "null"]
  /\ env = FullEnvironment
  /\ vpc = "received"
  /\ response = NoResponse
  /\ radicados = <<>>
  /\ idx = 1
  /\ results = <<>>
  /\ session = NoSession
  /\ qpc = "idle"
  /\ radicado = None
  /\ qret = NoRet
  /\ inflight = NoRequest
  /\ index_html = NoDoc
  /\ resp = NoDoc
  /\ status = "none"
  /\ hops = 0
  /\ qsent = 0
  /\ contacted = FALSE
  /\ logins = 0
  /\ calls = 0
  /\ \E r \in { [cookie |-> OtherCookie, radicados |-> OneRadicado, use_server_auth |-> "null"] } :
       other = [request |-> r, vpc |-> "received", response |-> NoResponse,
                radicados |-> <<>>, idx |-> 1, results |-> <<>>,
                session |-> NoSession, qpc |-> "idle", radicado |-> None,
                qret |-> NoRet, inflight |-> NoRequest, index_html |-> NoDoc,
                hops |-> 0, qsent |-> 0, contacted |-> FALSE, logins |-> 0,
                resp |-> NoDoc, status |-> "none"]

NextBatches ==
  \/ Receive
  \/ LoopCall
  \/ IndexResp
  \/ SubmitResp
  \/ LoopHandle
  \/ Respond
  \/ Switch

SpecBatches == InitBatches /\ [][NextBatches]_vars


\* ------------------------------------------------------------ properties

\* null, empty or whitespace only
Blank(x) == x = None \/ \A i \in 1..Len(x) : IsSpace(x[i])

\* C1: in a batch, an exception raised by the query of one identifier
\* becomes that identifier's result with ok = false, estado_normalizado =
\* "NO ENCONTRADO" and the exception's message as error; the loop goes on,
\* the results already collected stay as they are, and the response is sent
\* only when every identifier has its own result.
C1_FailureBecomesResult ==
  [][ /\ (vpc = "loop" /\ qpc = "done" /\ qret.kind = "raise")
         => /\ vpc' = "loop"
            /\ idx' = idx + 1
            /\ session' = session
            /\ results' = Append(results,
                 [radicado |-> radicados[idx], ok |-> FALSE, estado_raw |-> None,
                  estado_normalizado |-> NO_ENCONTRADO, asegurado |-> None,
                  error |-> qret.error])
      /\ Len(results') >= Len(results)
      /\ \A i \in 1..Len(results) : results'[i] = results[i]
      /\ (vpc = "loop" /\ vpc' = "responded")
         => /\ response'.status = 200
            /\ response'.results = results
            /\ Len(results) = Len(radicados)
            /\ \A i \in 1..Len(radicados) : results[i].radicado = radicados[i]
    ]_vars

\* C1 witness: a batch of two answered, the first identifier timed out and
\* the second got its status
C1_Witness ==
  /\ vpc = "responded"
  /\ Len(results) = 2
  /\ ~results[1].ok
  /\ results[1].error = <<"timeout">>
  /\ results[2].ok
  /\ results[2].estado_normalizado = SIN_DESISTIR

IsSeparator(c) == c \in {"\n", "\r", ",", ";"}

\* the pieces of an identifier input, by position: the items of a list, the
\* maximal separator-free stretches of a block of text
InputPieces(value) ==
  IF value.kind = "str"
  THEN LET t == value.text
           starts == {i \in 1..Len(t) : ~IsSeparator(t[i]) /\ (i = 1 \/ IsSeparator(t[i - 1]))}
           stop(i) == CHOOSE j \in i..Len(t) :
                        /\ \A k \in i..j : ~IsSeparator(t[k])
                        /\ (j = Len(t) \/ IsSeparator(t[j + 1]))
       IN [i \in starts |-> SubSeq(t, i, stop(i))]
  ELSE IF value.kind = "list" THEN [i \in 1..Len(value.items) |-> value.items[i]]
  ELSE IF value.kind = "other" THEN [i \in {1} |-> value.text]
  ELSE [i \in {} |-> <<>>]

\* a piece without its leading and trailing whitespace
Trimmed(p) ==
  LET ns == {i \in 1..Len(p) : ~IsSpace(p[i])} IN
  IF ns = {} THEN <<>>
  ELSE SubSeq(p, CHOOSE i \in ns : \A j \in ns : i <= j,
                 CHOOSE i \in ns : \A j \in ns : i >= j)

\* C2: the response of an accepted batch holds exactly one result per
\* distinct non-empty trimmed identifier of the input, in the order of the
\* identifiers' first occurrences, and count is that number.
C2_OneResultPerDistinctIdentifier ==
  (vpc = "responded" /\ response.status = 200) =>
    LET pieces == InputPieces(request.radicados)
        occ == [i \in DOMAIN pieces |-> Trimmed(pieces[i])]
        ids == {occ[i] : i \in DOMAIN occ} \ {<<>>}
        first(x) == CHOOSE i \in DOMAIN occ :
                      occ[i] = x /\ \A j \in DOMAIN occ : occ[j] = x => i <= j
        res == response.results
    IN /\ response.count = Cardinality(ids)
       /\ Len(res) = Cardinality(ids)
       /\ {res[i].radicado : i \in 1..Len(res)} = ids
       /\ \A i, j \in 1..Len(res) : i < j => first(res[i].radicado) < first(res[j].radicado)

\* C2 witness: a block of text with two identifiers, answered in the order
\* of the text
C2_Witness ==
  /\ vpc = "responded"
  /\ response.status = 200
  /\ request.radicados.kind = "str"
  /\ response.count = 2
  /\ response.results[1].radicado = <<"B">>
  /\ response.results[2].radicado = <<"A">>

\* the messages of the configuration errors (ensure_authenticated) and of
\* the failures of the login sequence (authenticate)
ConfigurationErrors == {<<"no_cookie">>, <<"no_credentials">>}

AuthenticationErrors == {<<"login_no_viewstate">>, <<"landing_redirect_no_location">>}

\* C3: authentication and configuration errors abort the whole batch: none
\* of them is turned into the result of an identifier.
C3_AuthErrorsAbortBatch ==
  \A i \in 1..Len(results) :
    results[i].error \notin (ConfigurationErrors \cup AuthenticationErrors)

\* C4: a batch request with neither a non-empty cookie nor the server-auth
\* flag is rejected (400, no results) with no session created and no portal
\* request issued.
C4_MissingAuthRejected ==
  (Blank(request.cookie) /\ request.use_server_auth # "true") =>
    /\ vpc \in {"received", "responded"}
    /\ ~session.exists
    /\ ~contacted
    /\ inflight = NoRequest
    /\ results = <<>>
    /\ vpc = "responded" => (response.status = 400 /\ "results" \notin DOMAIN response)

\* C4 witness: a whitespace-only cookie without the flag was rejected
C4_Witness ==
  /\ vpc = "responded"
  /\ request.cookie = <<" ">>
  /\ request.use_server_auth = "false"
  /\ response.status = 400

\* what a session without usable authentication input does: it never
\* becomes authenticated, never issues a request, and every query with a
\* non-empty identifier raises ValueError
FailsWithConfigurationError ==
  /\ ~session.is_authenticated
  /\ ~contacted
  /\ inflight = NoRequest
  /\ (qpc = "done" /\ ~Blank(radicado)) => (qret.kind = "raise" /\ qret.exc = "ValueError")

C6_NoUnauthenticatedRequest ==
  inflight.kind \in {"GET_INDEX", "POST_FORM"} =>
    \/ session.cookies # <<>>
    \/ (logins > 0 /\ session.is_authenticated)

\* C7: the session is constructed only for a request that supplies exactly
\* one of a non-empty cookie or use_server_auth = true with the user and
\* the password configured.
C7_ExactlyOneAuthInput ==
  session.exists =>
    LET cookie == Truthy(normalize_cookie_header(request.cookie))
        flag == request.use_server_auth = "true"
        creds == Truthy(env.user) /\ Truthy(env.password)
    IN (cookie /\ ~flag) \/ (~cookie /\ flag /\ creds)

\* C8: a query with an empty or whitespace-only identifier returns
\* "NO ENCONTRADO" at once: no authentication, no request, and the session
\* (authenticated flag, token, cookies) as it was.
C8_EmptyIdentifierNoNetwork ==
  [][ (qpc = "idle" /\ qpc' # "idle" /\ Blank(radicado'))
      => /\ qpc' = "done"
         /\ qret'.kind = "return"
         /\ qret'.value[2] = NO_ENCONTRADO
         /\ session' = session
         /\ inflight' = NoRequest
         /\ qsent' = 0
         /\ contacted' = contacted
         /\ logins' = logins
    ]_vars

\* C8 witness: a whitespace-only query has returned on a session that an
\* earlier query authenticated and gave a token
C8_Witness ==
  /\ vpc = "direct"
  /\ calls = 2
  /\ qpc = "done"
  /\ radicado = <<" ">>
  /\ qret.kind = "return"
  /\ session.is_authenticated
  /\ session.view_state_value = Tok2

\* the value attribute of a page's token field: None when the page has no
\* such field or the field has no value
PageToken(doc) ==
  IF HasViewStateElement(doc.html) THEN ViewStateElementValue(doc.html) ELSE None

\* C9: the token sent in a query's form submission is the token carried by
\* the landing page fetched in that query.
C9_TokenFromSamePage ==
  inflight.kind = "POST_FORM" =>
    DictGet(inflight.payload, VIEWSTATE) = PageToken(index_html)

\* C10: when the landing page has arrived and the tracked token is still
\* absent, or the page has no form, the query ends there with an error and
\* sends no form submission.
C10_NoTokenOrNoFormFails ==
  [][ (qpc = "get" /\ Fetched(index_html')
       /\ (~Truthy(session'.view_state_value) \/ index_html'.html.forms = <<>>))
      => /\ qpc' = "done"
         /\ qret'.kind = "raise"
         /\ qret'.exc = "Exception"
         /\ inflight' = NoRequest
         /\ qsent' = qsent
    ]_vars

\* C10 witness: the landing page of a query had no form while the session
\* held a token, and the query failed
C10_Witness ==
  /\ qpc = "done"
  /\ Fetched(index_html)
  /\ index_html.html.forms = <<>>
  /\ Truthy(session.view_state_value)
  /\ qret.kind = "raise"
  /\ qret.error = <<"no_form">>

\* the non-empty tokens a response carries: the text of a partial-response
\* update named after the token field, or the value of a token field
YieldedTokens(doc) ==
  { Strip(doc.updates[i].text) : i \in
      { j \in 1..Len(doc.updates) :
          /\ doc.marker /\ doc.xml_ok
          /\ Contains(Lower(OrEmpty(doc.updates[j].id)), viewstate_lower)
          /\ Strip(doc.updates[j].text) # <<>> } }
  \cup
  { AllControls(doc.html.forms)[i].value : i \in
      { j \in ViewStateInputs(doc.html) : Truthy(AllControls(doc.html.forms)[j].value) } }

\* the tracked token moves only to a non-empty token of the page just read
TokenKeptOrTaken(doc) ==
  /\ session'.view_state_value # session.view_state_value
       => session'.view_state_value \in YieldedTokens(doc)
  /\ YieldedTokens(doc) = {}
       => session'.view_state_value = session.view_state_value

\* C11: the state-token update is monotonic: reading a landing page or a
\* search response changes the tracked token only to a non-empty token that
\* page carries, a page without a token (or with an empty one) leaves the
\* tracked token as it was, and a non-empty tracked token never becomes null
\* or empty again.
C11_TokenUpdateMonotonic ==
  [][ /\ (qpc = "get" /\ Fetched(index_html')) => TokenKeptOrTaken(index_html')
      /\ (qpc = "post" /\ Fetched(resp')) => TokenKeptOrTaken(resp')
      /\ (session.exists /\ Truthy(session.view_state_value))
           => Truthy(session'.view_state_value)
    ]_vars

\* C11 witness: a search response without any token has been read and the
\* session still holds the token it had
C11_Witness ==
  /\ qpc = "done"
  /\ Fetched(resp)
  /\ YieldedTokens(resp) = {}
  /\ Truthy(session.view_state_value)

\* C12: ensure_authenticated is idempotent: a call on a session that is
\* already authenticated starts no login request and leaves the flag, the
\* token and the cookie jar as they are (the only request it is followed by
\* is the query's own landing-page GET); an authenticated session never
\* becomes unauthenticated again and its cookie jar is not touched.
C12_EnsureAuthenticatedIdempotent ==
  [][ /\ (qpc = "idle" /\ qpc' # "idle" /\ session.is_authenticated)
           => /\ session' = session
              /\ logins' = logins
              /\ inflight' \in {NoRequest, IndexGet}
              /\ qsent' <= 1
      /\ (session.exists /\ session.is_authenticated)
           => /\ session'.is_authenticated
              /\ session'.cookies = session.cookies
    ]_vars

\* C12 witness: a session that logged in with credentials during its first
\* call has just been called again and went straight to the landing-page GET
C12_Witness ==
  /\ calls = 2
  /\ logins = 1
  /\ session.is_authenticated
  /\ ~Truthy(session.cookie_header)
  /\ qpc = "get"
  /\ status = "none"
  /\ inflight = IndexGet

\* C13: Failed is terminal: the login sequence is started at most once per
\* session, whatever queries follow a failed login.
C13_LoginStartedAtMostOnce == logins <= 1

\* C14: in credential-login mode the session becomes authenticated only
\* with a non-empty initial token taken from the final login page.
C14_ReadyOnlyWithToken ==
  [][ (qpc \in {"login_landing", "login_final"} /\ session'.is_authenticated)
        => Truthy(session'.view_state_value)
    ]_vars

\* C15: in credential-login mode a credential POST answered with a non-2xx
\* status, a redirect without Location in the redirect chain, or a response
\* that is still a redirect after the 3-hop cap stops the login sequence:
\* the call raises and the session does not become authenticated.
C15_LoginErrorsFail ==
  [][ ( \/ (qpc = "login_cred" /\ status' = "error")
        \/ (qpc = "login_page" /\ status' = "redirect_no_location")
        \/ (qpc = "login_page" /\ hops = MaxRedirects /\ status' = "redirect") )
        => /\ qpc' = "done"
           /\ qret'.kind = "raise"
           /\ inflight' = NoRequest
           /\ ~session'.is_authenticated
    ]_vars

\* C17: the only form ever submitted to the portal is a form that contains
\* the search field.
C17_OnlySearchFormPosted ==
  inflight.kind = "POST_FORM" => HasBusquedaField(inflight.form)

\* C18: a query of a non-empty identifier on an authenticated session issues
\* exactly one landing-page GET and then at most one form POST; a GET that
\* fails (non-2xx status or timeout) ends the query with an error without
\* any POST, a POST is sent only after a GET that succeeded, and whatever
\* answers the POST ends the query without a further request, a non-2xx
\* status with an error.
C18_OneGetThenAtMostOnePost ==
  [][ /\ (qpc = "idle" /\ qpc' # "idle" /\ session'.is_authenticated
            /\ Truthy(Solicitud(radicado')))
           => (qpc' = "get" /\ inflight' = IndexGet /\ qsent' = 1)
      /\ (qpc = "get" /\ status' \in {"http_error", "timeout"})
           => (qpc' = "done" /\ qret'.kind = "raise" /\ inflight' = NoRequest
               /\ qsent' = qsent)
      /\ (qpc = "get" /\ qpc' # "get")
           => \/ (qpc' = "done" /\ qret'.kind = "raise" /\ inflight' = NoRequest
                  /\ qsent' = qsent)
              \/ (qpc' = "post" /\ status' = "ok" /\ inflight'.kind = "POST_FORM"
                  /\ qsent' = qsent + 1)
      /\ (qpc' = "post" => qpc = "get" \/ qpc = "post")
      /\ (qpc = "post" /\ qpc' # "post")
           => (qpc' = "done" /\ inflight' = NoRequest /\ qsent' = qsent
               /\ (status' \in {"http_error", "timeout"} => qret'.kind = "raise"))
      /\ (qpc = "done" => inflight' = NoRequest /\ qsent' = 0)
    ]_vars

\* C18 witness: on a cookie session the landing page arrived, the form was
\* posted, the portal answered the POST with a non-2xx status, and the query
\* ended with the error after those two requests
C18_Witness ==
  /\ qpc = "done"
  /\ logins = 0
  /\ Fetched(index_html)
  /\ status = "http_error"
  /\ qret.kind = "raise"
  /\ qsent = 2

\* the payload's value for a key
PayloadValue(payload, key) ==
  IF DictHas(payload, key) THEN DictGet(payload, key) ELSE <<"absent">>

\* the hidden inputs of a form that have a name other than the token's
HiddenInputs(form) ==
  { i \in 1..Len(form.controls) :
      /\ form.controls[i].tag = "input"
      /\ Lower(OrEmpty(form.controls[i].type)) = S_hidden
      /\ Truthy(form.controls[i].name)
      /\ form.controls[i].name # VIEWSTATE }

\* C16: in every form submission the search-text field holds the trimmed
\* identifier, the token field holds the tracked token, and every hidden
\* field of the chosen form is replayed with its own value, the submit
\* control overwriting none of them.
C16_PayloadContents ==
  inflight.kind = "POST_FORM" =>
    /\ PayloadValue(inflight.payload, BusquedaName(inflight.form)) = Solicitud(radicado)
    /\ PayloadValue(inflight.payload, VIEWSTATE) = session.view_state_value
    /\ \A i \in HiddenInputs(inflight.form) :
         \E j \in HiddenInputs(inflight.form) :
           /\ inflight.form.controls[j].name = inflight.form.controls[i].name
           /\ PayloadValue(inflight.payload, inflight.form.controls[i].name)
                = OrEmpty(inflight.form.controls[j].value)

\* where a form stands in the ranked chain (1 is preferred)
FormRank(form) ==
  IF HasBusquedaField(form)
  THEN IF IsFormIndex(form) THEN 1 ELSE IF PostsToIndex(form) THEN 2 ELSE 3
  ELSE IF HasViewStateInput(form) THEN 4 ELSE 5

\* the first form of the best rank present on the page
RankedChoice(forms) ==
  LET best == CHOOSE r \in 1..5 :
                /\ \E i \in 1..Len(forms) : FormRank(forms[i]) = r
                /\ \A i \in 1..Len(forms) : FormRank(forms[i]) >= r
      at == CHOOSE i \in 1..Len(forms) :
                /\ FormRank(forms[i]) = best
                /\ \A j \in 1..(i - 1) : FormRank(forms[j]) # best
  IN forms[at]

\* C19: the form submitted is the one the ranked chain gives, first match
\* wins: among the forms with a search field the canonical one, else the
\* first posting to the landing page, else the first; without any such form
\* the first with a token field, else the very first form; a form without a
\* search field is never chosen while some form of the page has one.
C19_RankedFormChoice ==
  (inflight.kind = "POST_FORM" /\ Fetched(index_html)) =>
    /\ inflight.form = RankedChoice(index_html.html.forms)
    /\ (\E i \in 1..Len(index_html.html.forms) :
          HasBusquedaField(index_html.html.forms[i]))
         => HasBusquedaField(inflight.form)

\* C19 witness: the page's first form has a search field and posts to the
\* landing page, its second form is the canonical search form, and the
\* second one is submitted
C19_Witness ==
  /\ inflight.kind = "POST_FORM"
  /\ Fetched(index_html)
  /\ Len(index_html.html.forms) = 2
  /\ HasBusquedaField(index_html.html.forms[1])
  /\ PostsToIndex(index_html.html.forms[1])
  /\ ~IsFormIndex(index_html.html.forms[1])
  /\ IsFormIndex(index_html.html.forms[2])
  /\ inflight.form = index_html.html.forms[2]

\* a button, or an input of type submit or image
IsSubmitControl(c) ==
  \/ c.tag = "button"
  \/ /\ c.tag = "input"
     /\ Lower(OrEmpty(c.type)) \in {<<"s","u","b","m","i","t">>, <<"i","m","a","g","e">>}

\* C20: the submit control put in the payload is one of the form's button or
\* submit controls, sent with its value equal to its own name; an element
\* that is not a submit control is never chosen.
C20_SubmitControlChoice ==
  (inflight.kind = "POST_FORM" /\ Truthy(SubmitName(inflight.form))) =>
    /\ \E i \in 1..Len(inflight.form.controls) :
         LET c == inflight.form.controls[i] IN
           /\ IsSubmitControl(c)
           /\ SubmitName(inflight.form) = (IF Truthy(c.name) THEN c.name ELSE c.id)
    /\ PayloadValue(inflight.payload, SubmitName(inflight.form)) = SubmitName(inflight.form)

\* C21: in every result of every batch, ok = false implies estado_raw is
\* null and ok = true implies error is null, both in the list the loop
\* builds and in the response sent.
C21_ResultFieldsConsistent ==
  /\ \A i \in 1..Len(results) :
       /\ ~results[i].ok => results[i].estado_raw = None
       /\ results[i].ok => results[i].error = None
  /\ response.status = 200 =>
       \A i \in 1..Len(response.results) :
         /\ ~response.results[i].ok => response.results[i].estado_raw = None
         /\ response.results[i].ok => response.results[i].error = None

\* C21 witness: a response with a failed result and a succeeded result that
\* carries a raw status
C21_Witness ==
  /\ response.status = 200
  /\ \E i \in 1..Len(response.results) : ~response.results[i].ok
  /\ \E i \in 1..Len(response.results) :
       response.results[i].ok /\ response.results[i].estado_raw = <<"N","u","e","v","o">>

\* no table of the response's markup is the request-data table
NoDatosTable(doc) ==
  \A t \in 1..Len(UnwrappedHtml(doc).tables) :
    ~EndsWith(Lower(Strip(OrEmpty(UnwrappedHtml(doc).tables[t].id))), S_datossolicitud)

\* C22: when the search response holds no request-data table, the extractor
\* yields a null raw status and a null claimant name and the query ends
\* normally with normalized status "NO ENCONTRADO", which gives a result with
\* ok = true; a query that ended on a transport failure gives a result with
\* ok = false.
C22_NoTableIsConfirmedAbsent ==
  (qpc = "done" /\ qret.kind \in {"return", "raise"}) =>
    /\ (Fetched(resp) /\ NoDatosTable(resp)) =>
         /\ extract_info_from_html(resp) = <<None, None>>
         /\ qret.kind = "return"
         /\ ResultOf(radicado, qret).ok
         /\ ResultOf(radicado, qret).estado_normalizado = NO_ENCONTRADO
         /\ ResultOf(radicado, qret).asegurado = None
         /\ ResultOf(radicado, qret).error = None
    /\ status \in {"timeout", "http_error"} =>
         /\ ~ResultOf(radicado, qret).ok
         /\ ResultOf(radicado, qret).error # None

\* C22 witness: the response shows a status label and its value inside a
\* table that is not the request-data table, and the query returned
C22_Witness ==
  /\ qpc = "done"
  /\ qret.kind = "return"
  /\ Fetched(resp)
  /\ NoDatosTable(resp)
  /\ Len(resp.html.labels) = 2
  /\ resp.html.labels[1] = Lbl(S_EstadoSiniestro, 1)
  /\ resp.html.labels[2] = Lbl(<<"N","u","e","v","o">>, 1)

S_nuevo == <<"n","u","e","v","o">>

S_desist == <<"d","e","s","i","s","t">>

S_report == <<"r","e","p","o","r","t">>

\* the literal form of a status text: trimmed, whitespace runs collapsed,
\* upper case
LiteralStatus(text) == Upper(Strip(CollapseWs(Strip(text))))

\* the normalized status the claim C23 gives for a raw text
ClaimedStatus(raw) ==
  IF raw = None \/ raw = <<>> THEN NO_ENCONTRADO
  ELSE IF Lower(Strip(raw)) = S_nuevo THEN SIN_DESISTIR
  ELSE IF Contains(Lower(raw), S_desist) THEN DESISTIDO
  ELSE IF Contains(Lower(raw), S_report) THEN REPORTADO
  ELSE LiteralStatus(raw)

\* the same with the payment phrases, and blank text taken as absent
AmendedStatus(raw) ==
  IF raw = None \/ Strip(raw) = <<>> THEN NO_ENCONTRADO
  ELSE IF Lower(Strip(raw)) = S_nuevo THEN SIN_DESISTIR
  ELSE IF Contains(Lower(raw), S_desist) THEN DESISTIDO
  ELSE IF Contains(Lower(raw), S_report) THEN REPORTADO
  ELSE IF \/ Contains(Lower(raw), <<"n","o"," ","h","a"," ","p","a","g","a","d","o">>)
          \/ Contains(Lower(raw), <<"s","i","n"," ","p","a","g","a","r">>)
       THEN SIN_DESISTIR
  ELSE LiteralStatus(raw)

\* the status text the request-data table of the response shows
ShownStatus(doc) == extract_info_from_html(doc)[1]

\* C23 as claimed: the normalized status of a query depends on the raw text
\* alone and is "NO ENCONTRADO" for no text, "SIN DESISTIR" for "nuevo",
\* "DESISTIDO" for a text containing "desist", "REPORTADO" for one containing
\* "report", and the trimmed, collapsed, upper-cased text otherwise.
C23_Original ==
  (qpc = "done" /\ qret.kind = "return" /\ Fetched(resp)) =>
    qret.value[2] = ClaimedStatus(ShownStatus(resp))

\* C23: the normalized status depends on the raw text alone: "NO ENCONTRADO"
\* for an absent or blank text, else "SIN DESISTIR" for "nuevo" (trimmed,
\* any case), else "DESISTIDO" for a text containing "desist", else
\* "REPORTADO" for one containing "report", else "SIN DESISTIR" for one
\* containing "no ha pagado" or "sin pagar", else the trimmed,
\* whitespace-collapsed, upper-cased text; the heuristic extractor's value
\* from the request-data table is normalized the same way.
C23_NormalizerMapping ==
  /\ (qpc = "done" /\ qret.kind = "return" /\ Fetched(resp)) =>
       qret.value[2] = AmendedStatus(ShownStatus(resp))
  /\ (qpc = "done" /\ qret.kind = "estado"
        /\ EstadoFromDatos(UnwrappedHtml(resp), DatosTables(UnwrappedHtml(resp))) # None) =>
       qret.value = AmendedStatus(EstadoFromDatos(UnwrappedHtml(resp), DatosTables(UnwrappedHtml(resp))))

\* C23 witness: the table showed "sin pagar" followed by more text and the
\* query returned "SIN DESISTIR"
C23_Witness ==
  /\ qpc = "done"
  /\ qret.kind = "return"
  /\ Fetched(resp)
  /\ ShownStatus(resp) = <<"s","i","n"," ","p","a","g","a","r","a">>
  /\ qret.value[2] = SIN_DESISTIR

\* a text that says not withdrawn or not paid
SaysNotWithdrawn(text) ==
  \/ Contains(Lower(text), <<"s","i","n"," ","d","e","s","i","s","t">>)
  \/ Contains(Lower(text), <<"n","o"," ","h","a"," ","p","a","g","a","d","o">>)
  \/ Contains(Lower(text), <<"s","i","n"," ","p","a","g","a","r">>)

\* C24: a raw status containing "sin desist", "no ha pagado" or "sin pagar"
\* is normalized to "SIN DESISTIR", whether it comes from the request-data
\* table or from the keyword tier of the heuristic extractor.
C24_NotWithdrawnPhrases ==
  /\ (qpc = "done" /\ qret.kind = "return" /\ Fetched(resp)
        /\ ShownStatus(resp) # None /\ SaysNotWithdrawn(ShownStatus(resp)))
       => qret.value[2] = SIN_DESISTIR
  /\ (qpc = "done" /\ qret.kind = "estado"
        /\ EstadoFromDatos(UnwrappedHtml(resp), DatosTables(UnwrappedHtml(resp))) = None
        /\ ~HasNoResultMarker(Lower(FullText(UnwrappedHtml(resp))))
        /\ KeywordMatch(Lower(FullText(UnwrappedHtml(resp)))) # None
        /\ SaysNotWithdrawn(KeywordMatch(Lower(FullText(UnwrappedHtml(resp))))))
       => qret.value = SIN_DESISTIR

\* the response body has no envelope marker, or is not well-formed XML
PlainOrUnparsable(doc) == ~doc.marker \/ ~doc.xml_ok

\* C25: when the response body has no envelope marker or does not parse as
\* XML, unwrapping returns it unchanged and does not raise: the query returns
\* what the extraction gives on the body itself, and unwrapping the unwrapped
\* text again changes nothing.
C25_UnwrapKeepsPlainText ==
  (qpc = "done" /\ Fetched(resp)) =>
    /\ UnwrappedHtml(FullPage(UnwrappedHtml(resp))) = UnwrappedHtml(resp)
    /\ PlainOrUnparsable(resp) =>
         /\ UnwrappedHtml(resp) = resp.html
         /\ qret.kind \in {"return", "estado"}
         /\ qret.kind = "return" => qret.value = InfoResult(FullPage(resp.html))
         /\ qret.kind = "estado" => qret.value = extract_estado_from_html(FullPage(resp.html))

C25_Witness ==
  /\ qpc = "done"
  /\ qret.kind = "return"
  /\ resp = RespBrokenWith(<<"N","u","e","v","o">>)
  /\ qret.value[1] = <<"N","u","e","v","o">>

\* the labels of the page that lie inside one of its request-data tables
DatosLabels(html) ==
  { i \in 1..Len(html.labels) :
      \E k \in 1..Len(DatosTables(html)) : html.labels[i].table = DatosTables(html)[k] }

\* C26: the heuristic extractor looks for a "no results" phrase only when it
\* found no request-data table: on a page that has the table, a phrase that
\* stands outside the table does not make the result "NO ENCONTRADO".
C26_MarkerOnlyWithoutTable ==
  LET html == UnwrappedHtml(resp)
      inside == [html EXCEPT !.labels =
                   [i \in 1..Len(html.labels) |->
                      IF i \in DatosLabels(html) THEN html.labels[i]
                      ELSE [html.labels[i] EXCEPT !.text = <<>>]]]
  IN (/\ qpc = "done"
      /\ qret.kind = "estado"
      /\ DatosTables(html) # <<>>
      /\ HasNoResultMarker(Lower(FullText(html)))
      /\ ~HasNoResultMarker(Lower(FullText(inside))))
       => qret.value # NO_ENCONTRADO

\* value is the text of a label of table t that directly follows, inside the
\* table, a label of the table matching the pattern
FollowsInTable(html, t, label_pattern, value) ==
  \E i \in 1..Len(html.labels) :
    /\ html.labels[i].table = t
    /\ html.labels[i].text # None
    /\ LabelMatches(label_pattern, html.labels[i].text)
    /\ i + 1 <= Len(html.labels)
    /\ html.labels[i + 1].table = t
    /\ Strip(OrEmpty(html.labels[i + 1].text)) = value

\* C28: the raw status and the claimant name a query returns are the texts
\* of labels inside the request-data table, each directly following there
\* the label that matches its pattern; without such a label the field is
\* absent.
C28_ValueFromTableLabel ==
  (qpc = "done" /\ qret.kind = "return" /\ Fetched(resp)) =>
    LET html == UnwrappedHtml(resp)
        t == IF DatosTables(html) = <<>> THEN 0 ELSE Head(DatosTables(html))
    IN /\ qret.value[1] # NO_ENCONTRADO =>
            t # 0 /\ FollowsInTable(html, t, "estado_siniestro", qret.value[1])
       /\ qret.value[3] # None =>
            t # 0 /\ FollowsInTable(html, t, "inquilino_asegurado", qret.value[3])

\* the identifier input holds no identifier: it is absent, or every piece of
\* it is empty or whitespace
NoIdentifier(value) ==
  \A i \in DOMAIN InputPieces(value) : Trimmed(InputPieces(value)[i]) = <<>>

\* C29: a batch request whose identifier input holds no identifier is
\* rejected with status 400 and no results, before a session is created or a
\* portal request issued; no response of the endpoint has count 0.
C29_EmptyInputRejected ==
  /\ NoIdentifier(request.radicados) =>
       /\ vpc \in {"received", "responded"}
       /\ ~session.exists
       /\ ~contacted
       /\ inflight = NoRequest
       /\ results = <<>>
       /\ vpc = "responded" =>
            /\ response.status = 400
            /\ "count" \notin DOMAIN response
            /\ "results" \notin DOMAIN response
  /\ (vpc = "responded" /\ "count" \in DOMAIN response) => response.count > 0

\* C29 witness: a text of separators and whitespace only, sent with a usable
\* cookie, was rejected for its missing identifiers
C29_Witness ==
  /\ vpc = "responded"
  /\ request.cookie = GoodCookie
  /\ request.radicados = [kind |-> "str", text |-> <<",", " ", ";">>]
  /\ response = [status |-> 400, detail |-> "missing_radicados"]
  /\ ~session.exists

\* a request is awaited only inside a query of the batch's loop
OneInFlight(f) ==
  f.inflight # NoRequest => (f.vpc = "loop" /\ f.qpc \notin {"idle", "done"})

\* the results so far are those of the first identifiers, in their order,
\* and the query under way is the one of the next identifier
InInputOrder(f) ==
  /\ Len(f.results) = f.idx - 1
  /\ f.idx - 1 <= Len(f.radicados)
  /\ \A i \in 1..Len(f.results) : f.results[i].radicado = f.radicados[i]
  /\ f.qpc # "idle" => (f.idx <= Len(f.radicados) /\ f.radicado = f.radicados[f.idx])

\* the batch's Session is the one built from the batch's own request, and
\* holds a token only once the batch itself has contacted the portal
OwnSession(f) ==
  LET cookie_header == normalize_cookie_header(f.request.cookie) IN
  /\ f.vpc = "received" => ~f.session.exists
  /\ f.session.exists =>
       /\ f.session.cookie_header = cookie_header
       /\ f.session.use_server_auth = Bool(f.request.use_server_auth)
       /\ f.session.view_state_value # None => f.contacted
       /\ f.session.is_authenticated => f.qpc # "idle" \/ f.idx > 1

\* C27: in each of two concurrent batches at most one portal request is
\* awaited at a time, the queries run one after another in the order of the
\* identifiers, and the batch's Session (cookies, token) is the one the
\* batch built: the other batch neither reads nor writes it.
C27_SerializedOwnSession ==
  /\ OneInFlight(Frame) /\ InInputOrder(Frame) /\ OwnSession(Frame)
  /\ other # NoBatch =>
       OneInFlight(other) /\ InInputOrder(other) /\ OwnSession(other)

\* C27 witness: both batches await a response at the same time, each with
\* its own cookies, the running one in its second query
C27_Witness ==
  /\ other # NoBatch
  /\ inflight # NoRequest
  /\ other.inflight # NoRequest
  /\ idx = 2
  /\ session.view_state_value # None
  /\ session.cookie_header # other.session.cookie_header

====
